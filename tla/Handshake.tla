------------------------------ MODULE Handshake ------------------------------
(***************************************************************************)
(* One Joy-Con from the opening of its handle: the five subcommands of     *)
(* jc_create and dev_list_connect_new, then the polling.                   *)
(*                                                                         *)
(* Answers and input reports come back on one channel.  Each subcommand is *)
(* one write and one read of whatever report is first there; nothing       *)
(* matches answers to questions.  What keeps them in step is that          *)
(* jc_flush_input quietens the Joy-Con and reads until nothing comes.      *)
(* DevList takes each of these exchanges for one step.                     *)
(***************************************************************************)
EXTENDS Integers, Sequences, FiniteSets

CONSTANTS
  Numbers,     \* the player numbers it may be told
  InboxLimit,  \* how many reports the kernel keeps for a handle
  MaxPresses,  \* bound: inputs during the set-up
  MaxRelights, \* bound: changes of the number while it is polled
  None         \* no report

ASSUME SessionAssumption ==
  /\ Numbers \subseteq 1 .. 15
  /\ InboxLimit \in Nat \ {0}
  /\ MaxPresses \in Nat
  /\ MaxRelights \in Nat

VARIABLES
  pc,       \* where the program stands
  step,     \* which subcommand of the set-up it is at
  number,   \* the player number it has for this Joy-Con
  answer,   \* the report each read of the set-up returned
  tail,     \* jc_recv_buf[20 .. 37], which jc_calibrate takes for its data
  inbox,    \* the reports waiting in the kernel
  sent,     \* the subcommands the Joy-Con has still to execute
  mode,     \* the input mode of the Joy-Con
  lamps,    \* the player lights it shows
  up,       \* is it connected?
  blocking, \* dev->blocking: does hid_read wait for a report?
  presses,  \* history: input reports queued since the drain
  relights  \* how often its number was changed

program == <<pc, step, number, answer, tail, relights, blocking>>
pad     == <<mode, lamps>>
vars    == <<program, pad, inbox, sent, up, presses>>

Full   == 48  \* JC_INPUT_MODE_FULL
Simple == 63  \* JC_INPUT_MODE_SIMPLE

Sub(sc, arg) == [sc |-> sc, arg |-> arg]

(* Mutants: the Joy-Con is not quietened; 0xf is sent after the number.    *)
Script_Loud ==
  <<Sub("mode", Full), Sub("lights", 15), Sub("spi", 0),
    Sub("lights", number), Sub("mode", Full)>>

Script_AllOnLast ==
  <<Sub("mode", Simple), Sub("lights", number), Sub("spi", 0),
    Sub("lights", 15), Sub("mode", Full)>>

(* What is sent, in order, and after it what a poll may send. *)
Script ==
  <<Sub("mode", Simple), Sub("lights", 15), Sub("spi", 0),
    Sub("lights", number), Sub("mode", Full)>>

Steps == 1 .. 5

(* jc_create ends with the second; errors after it end rubusd. *)
Failure == IF step <= 2 THEN "failed" ELSE "exit"

Input(m)     == [kind |-> "input", mode |-> m]
Reply(sub)   == [kind |-> "reply", to |-> sub]

(* The buffer is one for all Joy-Cons: zero at first, and later what the   *)
(* last of them has left.                                                  *)
Leftovers == {[kind |-> "zeros"], [kind |-> "leftover"]}

(* The Joy-Con may have been left in either mode, by rubusd or another.    *)
Init ==
  /\ pc = "write" /\ step = 1
  /\ number \in Numbers
  /\ answer = [s \in Steps |-> None]
  /\ tail \in Leftovers
  /\ inbox = <<>> /\ sent = <<>>
  /\ mode \in {Full, Simple} /\ lamps = 0
  /\ up = TRUE
  /\ blocking = TRUE
  /\ presses = 0 /\ relights = 0

-----------------------------------------------------------------------------
(* rubusd *)

(* jc_send_sub_command: hid_write ... *)
Write ==
  /\ pc = "write"
  /\ IF up THEN pc' = "read" /\ sent' = Append(sent, Script[step])
           ELSE pc' = Failure /\ UNCHANGED sent
  /\ UNCHANGED <<step, number, answer, tail, relights, blocking, pad, inbox, up, presses>>

(* Where a read leads that has its report. *)
NextPlace == IF step = 1 THEN "drain" ELSE IF step = 5 THEN "poll" ELSE "write"

(* Mutant: one step beyond the last. *)
NextStep_NoEnd == IF step = 1 THEN step ELSE step + 1

(* jc_flush_input goes on to the drain loop before the second subcommand.  *)
NextStep == IF step \in {1, 5} THEN step ELSE step + 1

(* How much of a report a read copies: no more than was asked for, and no  *)
(* more than there is.  An input in simple mode is 12 bytes long.          *)
Length(s, r) ==
  LET asked == <<1, 15, 38, 15, 15>>[s]
  IN  IF r = Input(Simple) /\ asked > 12 THEN 12 ELSE asked

(* What a short report does not reach keeps what it held. *)
TailAfter(r) == IF Length(step, r) > 20 THEN r ELSE tail

(* ... and hid_read, which waits for a report, and takes one that was      *)
(* queued even when the Joy-Con has since disconnected.                    *)
Read ==
  /\ pc = "read"
  /\ IF inbox # <<>>
     THEN /\ answer' = [answer EXCEPT ![step] = Head(inbox)]
          /\ tail' = TailAfter(Head(inbox))
          /\ inbox' = Tail(inbox)
          /\ pc' = NextPlace
          /\ step' = NextStep
     ELSE /\ ~ up
          /\ pc' = Failure
          /\ UNCHANGED <<answer, tail, inbox, step>>
  /\ UNCHANGED <<number, relights, blocking, pad, sent, up, presses>>

(* jc_flush_input: hid_read_timeout takes a report, and is called again.   *)
(* On a dead handle it returns -1 at once, and is called again too.        *)
Drain ==
  /\ pc = "drain" /\ up
  /\ inbox # <<>>
  /\ inbox' = Tail(inbox)
  /\ UNCHANGED <<program, pad, sent, up, presses>>

(* Mutant: hid_read_timeout is called with 0 and does not wait. *)
Drained_AtOnce ==
  /\ pc = "drain" /\ up
  /\ inbox = <<>>
  /\ pc' = "write" /\ step' = 2
  /\ presses' = 0
  /\ UNCHANGED <<number, answer, tail, relights, blocking, pad, inbox, sent, up>>

(* Nothing came for 100 ms.  A Joy-Con answers sooner than that, and in    *)
(* full mode reports sooner.                                               *)
Drained ==
  /\ pc = "drain" /\ up
  /\ inbox = <<>> /\ sent = <<>> /\ mode = Simple
  /\ pc' = "write" /\ step' = 2
  /\ presses' = 0
  /\ UNCHANGED <<number, answer, tail, relights, blocking, pad, inbox, sent, up>>

(* jc_input_maybe: the handle no longer waits, and a report is read if one *)
(* is there.                                                               *)
Poll ==
  /\ pc = "poll" /\ up
  /\ blocking' = FALSE
  /\ inbox' = IF inbox = <<>> THEN inbox ELSE Tail(inbox)
  /\ UNCHANGED <<pc, step, number, answer, tail, relights, pad, sent, up, presses>>

(* jc_input_maybe gives the Joy-Con up. *)
GiveUp ==
  /\ pc = "poll" /\ ~ up
  /\ pc' = "removed"
  /\ UNCHANGED <<step, number, answer, tail, relights, blocking, pad, inbox, sent, up,
                 presses>>

(* dev_list_remove of another moves this one down. *)
Renumber ==
  /\ pc = "poll"
  /\ relights < MaxRelights
  /\ relights' = relights + 1
  /\ number' \in {n \in Numbers : n < number}

(* Its new number is sent.  The read after it finds no report, takes the   *)
(* first there is, or, if the Joy-Con has not been polled yet, waits for   *)
(* one.                                                                    *)
Relight ==
  /\ Renumber
  /\ up
  /\ sent' = Append(sent, Sub("lights", number'))
  /\ inbox' = IF inbox = <<>> THEN inbox ELSE Tail(inbox)
  /\ pc' = IF blocking /\ inbox = <<>> THEN "relit" ELSE "poll"
  /\ UNCHANGED <<step, answer, tail, blocking, pad, up, presses>>

(* On a dead handle hid_write fails, and the result is ignored: the number *)
(* is another one, and nothing was sent.                                   *)
RelightFails ==
  /\ Renumber
  /\ ~ up
  /\ UNCHANGED <<pc, step, answer, tail, blocking, pad, inbox, sent, up, presses>>

(* The read that waited returns; its report or its error is ignored. *)
ReadRelit ==
  /\ pc = "relit"
  /\ IF inbox # <<>> THEN inbox' = Tail(inbox) ELSE ~ up /\ UNCHANGED inbox
  /\ pc' = "poll"
  /\ UNCHANGED <<step, number, answer, tail, relights, blocking, pad, sent, up, presses>>

Program == Write \/ Read \/ Drain \/ Drained \/ Poll \/ ReadRelit \/ GiveUp

-----------------------------------------------------------------------------
(* The Joy-Con and the kernel *)

(* hidraw drops what comes to a full queue. *)
Queued(r) == IF Len(inbox) < InboxLimit THEN Append(inbox, r) ELSE inbox

(* The Joy-Con executes subcommands in their order and answers each.       *)
Execute ==
  /\ up /\ sent # <<>>
  /\ LET sub == Head(sent)
     IN  /\ mode'  = IF sub.sc = "mode" THEN sub.arg ELSE mode
         /\ lamps' = IF sub.sc = "lights" THEN sub.arg ELSE lamps
         /\ inbox' = Queued(Reply(sub))
  /\ sent' = Tail(sent)
  /\ UNCHANGED <<program, up, presses>>

(* In simple mode it reports when a button is pressed or released. *)
Press ==
  /\ up /\ mode = Simple
  /\ presses < MaxPresses
  /\ presses' = presses + 1
  /\ inbox' = Queued(Input(Simple))
  /\ UNCHANGED <<program, pad, sent, up>>

(* In full mode it reports all the time. *)
Report ==
  /\ up /\ mode = Full
  /\ Len(inbox) < InboxLimit
  /\ inbox' = Queued(Input(Full))
  /\ UNCHANGED <<program, pad, sent, up, presses>>

Disconnect ==
  /\ up /\ up' = FALSE
  /\ UNCHANGED <<program, pad, inbox, sent, presses>>

Next == Program \/ Relight \/ RelightFails \/ Execute \/ Press \/ Report \/ Disconnect

Spec == Init /\ [][Next]_vars

(* The program goes on where it is not waiting, and a Joy-Con that is      *)
(* connected executes what it is sent.                                     *)
FairSpec == Spec /\ WF_vars(Program) /\ WF_vars(Execute)
-----------------------------------------------------------------------------
(* Properties *)

Places == {"write", "read", "drain", "poll", "relit", "failed", "exit", "removed"}

Subs == [sc : {"mode", "lights", "spi"}, arg : 0 .. 63]

Reports == [kind : {"input"}, mode : {Full, Simple}] \cup [kind : {"reply"}, to : Subs]

(* The types of the variables. *)
TypeOK ==
  /\ pc \in Places /\ step \in Steps
  /\ number \in Numbers
  /\ answer \in [Steps -> Reports \cup {None}]
  /\ tail \in Reports \cup Leftovers
  /\ inbox \in Seq(Reports) /\ Len(inbox) <= InboxLimit
  /\ sent \in Seq(Subs)
  /\ mode \in {Full, Simple} /\ lamps \in 0 .. 15
  /\ up \in BOOLEAN /\ blocking \in BOOLEAN
  /\ presses \in 0 .. MaxPresses
  /\ relights \in 0 .. MaxRelights

After == {s \in 2 .. 5 : answer[s] # None}

Presses == {s \in After : answer[s] = Input(Simple)}

(* After the drain the reads fall behind the subcommands by no more than   *)
(* the inputs reported since: each read returned such an input or the      *)
(* answer to one of the last subcommands, and no more of them are inputs   *)
(* than were reported.  Without an input each read has its own answer: the *)
(* calibration is that of this Joy-Con, whatever mode it was found in and  *)
(* whatever was queued before.  (A change of the number changes the Script *)
(* it is compared with, but no answer.)                                    *)
Slip ==
  relights = 0 =>
    /\ Cardinality(Presses) <= presses
    /\ \A s \in After \ Presses :
         \E t \in 2 .. s : s - t <= presses /\ answer[s] = Reply(Script[t])

(* The calibration is made from this Joy-Con's data, or, if an input was   *)
(* reported since the drain, from the answer before, or, where the input   *)
(* itself was read, from what the buffer held: another Joy-Con's.  It is   *)
(* never made from an input.                                               *)
Calibrated ==
  answer[3] # None =>
    \/ tail = Reply(Sub("spi", 0))
    \/ presses > 0 /\ tail \in {Reply(Sub("lights", 15))} \cup Leftovers

(* No read waits for what will not come: the set-up ends in the polling or *)
(* with an error, or in the drain loop on a Joy-Con that has disconnected; *)
(* and a change of the number ends in the polling.                         *)
ReadsEnd ==
  pc \in {"write", "read", "drain", "relit"}
    ~> pc \in {"poll", "failed", "exit", "removed"} \/ (pc = "drain" /\ ~ up)

(* A Joy-Con that is polled comes to report in full mode and to show the   *)
(* last number it was given, also when answers went astray on the way.     *)
Ready ==
  \A n \in Numbers :
    <>[](pc = "poll" /\ up /\ number = n) => <>[](mode = Full /\ lamps = n)

(* A Joy-Con that is polled and connected, and has executed all it was     *)
(* sent, reports in full mode and shows the number rubusd has for it: it   *)
(* was sent nothing that contradicts it, whatever became of the answers.   *)
(* One that has disconnected may be given another number and not hear it.  *)
Settled ==
  pc \in {"poll", "relit"} /\ up /\ sent = <<>> => mode = Full /\ lamps = number

(* JC_INPUT_REPLY_ASSERT_ACK: the report read after a subcommand that sets *)
(* the lights or the mode is the answer to it.                             *)
Acknowledged ==
  \A s \in After : Script[s].sc # "spi" =>
    answer[s].kind = "reply" /\ answer[s].to.sc = Script[s].sc
=============================================================================
