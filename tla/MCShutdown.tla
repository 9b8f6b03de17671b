----------------------------- MODULE MCShutdown ------------------------------
(* Values for the constants of Shutdown. *)
EXTENDS Shutdown

CONSTANTS s1, s2, s3, s4, int, term

FourStructs == {s1, s2, s3, s4}
BothSignals == {int, term}

(* None, either target, both in either order, and one that is not known.   *)
SomeArguments ==
  {<<>>, <<"--usb">>, <<"--usb", "--uinput">>, <<"--uinput", "-s", "--usb", "--hid">>}
=============================================================================
