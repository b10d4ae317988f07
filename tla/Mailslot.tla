------------------------------ MODULE Mailslot ------------------------------
(***************************************************************************)
(* MailslotClient, which creates a mailslot and empties it from time to    *)
(* time, and MailslotServer, which puts three messages into it.            *)
(***************************************************************************)
EXTENDS Integers, Sequences

CONSTANT MsgNums

VARIABLES slot,            \* the messages in the mailslot
          writer, written, \* what MailslotServer is doing, what it has put in
          reader,          \* what MailslotClient is doing
          cAllMessages, cMessage,
          shown,           \* the messages shown, in their order
          number,          \* what was said of the last one: "Message #"
          late             \* how many came since the messages were counted

vars == <<slot, writer, written, reader, cAllMessages, cMessage, shown, number, late>>
-----------------------------------------------------------------------------
MakeSlot ==
  /\ reader = "start" /\ reader' = "look"
  /\ UNCHANGED <<slot, writer, written, cAllMessages, cMessage, shown, number, late>>

(* GetMailslotInfo: with nothing there the client sleeps and looks again.  *)
CountMessages ==
  /\ reader = "look" /\ slot # <<>>
  /\ reader' = "read" /\ late' = 0 /\ number' = 0
  /\ cMessage' = Len(slot) /\ cAllMessages' = Len(slot)
  /\ UNCHANGED <<slot, writer, written, shown>>

(* GetMailslotInfo again                                                   *)
LeftInSlot == Len(slot) - 1

(* One turn of the loop                                                    *)
ReadSlot ==
  /\ reader = "read" /\ cMessage # 0
  /\ number' = cAllMessages - cMessage + 1
  /\ shown' = Append(shown, Head(slot)) /\ slot' = Tail(slot)
  /\ cMessage' = LeftInSlot
  /\ UNCHANGED <<writer, written, reader, cAllMessages, late>>

ReadSlotReturns ==
  /\ reader = "read" /\ cMessage = 0 /\ reader' = "look"
  /\ UNCHANGED <<slot, writer, written, cAllMessages, cMessage, shown, number, late>>

OpenSlot ==
  /\ writer = "start" /\ writer' = IF reader = "start" THEN "ended" ELSE "write"
  /\ UNCHANGED <<slot, written, reader, cAllMessages, cMessage, shown, number, late>>

WriteSlot ==
  /\ writer = "write"
  /\ written' = written + 1 /\ slot' = Append(slot, written + 1)
  /\ writer' = IF written + 1 = MsgNums THEN "ended" ELSE "write"
  /\ late' = IF reader = "read" THEN late + 1 ELSE late
  /\ UNCHANGED <<reader, cAllMessages, cMessage, shown, number>>
-----------------------------------------------------------------------------
Init == /\ slot = <<>> /\ writer = "start" /\ written = 0 /\ reader = "start"
        /\ cAllMessages = 0 /\ cMessage = 0 /\ shown = <<>> /\ number = 0
        /\ late = 0

Next == \/ MakeSlot \/ CountMessages \/ ReadSlot \/ ReadSlotReturns
        \/ OpenSlot \/ WriteSlot

Spec == Init /\ [][Next]_vars
-----------------------------------------------------------------------------
TypeOK ==
  /\ writer \in {"start", "write", "ended"} /\ reader \in {"start", "look", "read"}
  /\ written \in 0 .. MsgNums /\ late \in 0 .. MsgNums
  /\ cAllMessages \in 0 .. MsgNums /\ cMessage \in 0 .. MsgNums
  /\ number \in -MsgNums .. MsgNums

(* Every message is shown once and in order; ReadSlot never returns with   *)
(* one left that it had seen, and the messages of a batch are numbered one *)
(* by one unless others come in between: then a number is used again, or is*)
(* 0 or less (MailslotClient/main.cpp:56).                                 *)
AllShown ==
  /\ shown \o slot = [n \in 1 .. written |-> n]
  /\ reader = "read" => cMessage <= Len(slot) /\ Len(slot) - cMessage <= late
  /\ reader = "read" /\ number # 0 => /\ number <= cAllMessages
                                      /\ number >= cAllMessages - Len(slot) - late
  /\ reader = "read" /\ late = 0 => number = cAllMessages - cMessage
=============================================================================
