---------------------------- MODULE MCHidEnumerate ---------------------------
(* Values for the constants of HidEnumerate. *)
EXTENDS HidEnumerate

CONSTANTS bt, usb, orphan, other

FourDevices == {bt, usb, orphan, other}

(* One of each kind: the orphan is always taken off the list again, the    *)
(* USB device if it is gone by then. *)
OneOfEach ==
  [n \in Devices |-> IF n = bt THEN "bluetooth" ELSE IF n = usb THEN "usb"
                     ELSE IF n = other THEN "other" ELSE "orphan"]
=============================================================================
