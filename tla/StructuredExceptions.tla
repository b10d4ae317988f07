------------------------ MODULE StructuredExceptions ------------------------
(***************************************************************************)
(* The programs of ExceptionsProcessing.  Each one enters blocks guarded by*)
(* handlers, leaves them by an exception, a goto or __leave, and writes    *)
(* what happens to a log file and to the log of the system.                *)
(***************************************************************************)
EXTENDS Integers, Sequences

Codes == {"divide", "overflow"}
None == "none"

(* A block: its handler, the codes its filter accepts, and how the code    *)
(* inside it ends: by raising an exception, by a floating point operation, *)
(* by goto, by __leave, or at its last line.                               *)
Except(codes, how) == [handler |-> "except", accepts |-> codes, how |-> how]
Finally(how) == [handler |-> "finally", accepts |-> {}, how |-> how]

(* A program: whether it takes a parameter that selects the exception, its *)
(* blocks in turn, each with those around it, the innermost first, and the *)
(* category of the event it reports when it has caught that exception.     *)
Described(asks, blocks, caught(_)) ==
  [asks |-> asks, caught |-> [code \in Codes |-> caught(code)],
   blocks |-> [code \in Codes |-> blocks[code]]]

ForBoth(blocks) == [code \in Codes |-> blocks]
Same(code) == code
Overflow(code) == "overflow"
Divide(code) == "divide"

WinAPI == Described(TRUE, ForBoth(<< <<Except(Codes, "operation")>> >>), Overflow)

GetExceptionCode ==
  Described(TRUE, [divide   |-> << <<Except({"divide"}, "operation")>> >>,
                   overflow |-> << <<Except(Codes, "operation")>> >>], Same)

FilterFunction == Described(TRUE, ForBoth(<< <<Except(Codes, "operation")>> >>), Same)

RaiseException == Described(TRUE, ForBoth(<< <<Except(Codes, "raise")>> >>), Overflow)

(* No block at all: what is raised finds only the filter of last resort.   *)
UnhandleExceptionFilter ==
  Described(TRUE, ForBoth(<< <<[handler |-> "none", accepts |-> {}, how |-> "raise"]>> >>),
            Overflow)

NestedException ==
  Described(FALSE, ForBoth(<< <<Except({"overflow"}, "raise"), Except({"divide"}, "raise")>> >>),
            Divide)

(* translator() makes a C++ exception of a division by zero only.          *)
Translator == Described(FALSE, ForBoth(<< <<Except({"divide"}, "raise")>> >>), Overflow)

Goto == Described(FALSE, ForBoth(<< <<Except(Codes, "goto")>> >>), Divide)
Leave == Described(FALSE, ForBoth(<< <<Except(Codes, "leave")>> >>), Divide)
FinallyProgram == Described(FALSE, ForBoth(<< <<Finally("end")>> >>), Overflow)

AbnormalTermination ==
  Described(FALSE, ForBoth(<< <<Finally("goto")>>, <<Finally("leave")>> >>), Same)

Program == [WinAPI |-> WinAPI, GetExceptionCode |-> GetExceptionCode,
            FilterFunction |-> FilterFunction, RaiseException |-> RaiseException,
            UnhandleExceptionFilter |-> UnhandleExceptionFilter,
            NestedException |-> NestedException, Translator |-> Translator,
            Goto |-> Goto, Leave |-> Leave, Finally |-> FinallyProgram,
            AbnormalTermination |-> AbnormalTermination]

VARIABLES name, task,      \* the program, and the exception it is to cause
          block,           \* the number of the block it is in
          raised, level,   \* the exception, and the handler asked next
          late,            \* an overflow that is not yet raised
          abnormal,        \* what AbnormalTermination() returned
          logged, onDisk,  \* the lines of the log, and how many are in the file
          events, step

vars == <<name, task, block, raised, level, late, abnormal, logged, onDisk, events, step>>

Block == Program[name].blocks[task][block]
-----------------------------------------------------------------------------
(* One of the programs has an fflush in its writelog.                      *)
Flushes == name = "UnhandleExceptionFilter"

(* Mutant: none of them has.                                               *)
WriteLogNoFlush(lines) == logged' = logged \o lines /\ UNCHANGED onDisk

WriteLog(lines) ==
  /\ logged' = logged \o lines
  /\ onDisk' = IF Flushes THEN Len(logged') ELSE onDisk

(* syslog: when the report fails, that goes to the log.                    *)
WriteAndReport(lines, category, kind) ==
  \/ WriteLog(lines) /\ events' = Append(events, <<category, kind>>)
  \/ WriteLog(Append(lines, "ReportEvent failed")) /\ UNCHANGED events

CloseLog(lines) == logged' = logged \o lines \o <<"Shutting down">> /\ onDisk' = Len(logged')

InitLog ==
  /\ step = "start"
  /\ \/ step' = "exited" /\ UNCHANGED <<logged, onDisk>>       \* no log file
     \/ step' = "parameters" /\ WriteLog(<<"starting">>)
  /\ UNCHANGED <<name, task, block, raised, level, late, abnormal, events>>

Parameters ==
  /\ step = "parameters"
  /\ \/ Program[name].asks /\ step' = "exited" /\ CloseLog(<<"parameters">>)
     \/ Program[name].asks /\ step' = "before" /\ WriteLog(<<"task">>)
     \/ ~Program[name].asks /\ step' = "before" /\ UNCHANGED <<logged, onDisk>>
  /\ UNCHANGED <<name, task, block, raised, level, late, abnormal, events>>
-----------------------------------------------------------------------------
Causes == Head(Block).how \in {"raise", "operation"}

EnterBlock ==
  /\ step = "before" /\ step' = "inside"
  /\ IF Causes THEN WriteAndReport(<<"Ready">>, task, "ready")
     ELSE WriteLog(<<Head(Block).how>>) /\ UNCHANGED events
  /\ UNCHANGED <<name, task, block, raised, level, late, abnormal>>

Raised == /\ raised' = task /\ level' = 1 /\ step' = "search"

Raise == /\ step = "inside" /\ Head(Block).how = "raise" /\ Raised
         /\ UNCHANGED <<name, task, block, late, abnormal, logged, onDisk, events>>

(* A division by zero is raised at once.  An overflow comes when its result*)
(* is stored and is raised by the next operation of the kind: in the block,*)
(* after it or never, when none follows.                                   *)
Operation ==
  /\ step = "inside" /\ Head(Block).how = "operation"
  /\ \/ Raised /\ UNCHANGED <<late, logged, onDisk>>
     \/ /\ task = "overflow" /\ late' = TRUE /\ step' = "after"
        /\ WriteLog(<<"is generated">>) /\ UNCHANGED <<raised, level>>
  /\ UNCHANGED <<name, task, block, abnormal, events>>

RaisedLate ==
  /\ late /\ raised = None /\ step = "after"
  /\ raised' = task /\ step' = "unhandled"
  /\ UNCHANGED <<name, task, block, level, late, abnormal, logged, onDisk, events>>

(* Mutant: the __finally block takes __leave for a way out like goto.      *)
JumpAlike ==
  /\ step = "inside" /\ Head(Block).how \in {"goto", "leave", "end"}
  /\ step' = IF Head(Block).handler = "finally" THEN "finally" ELSE "after"
  /\ abnormal' = (Head(Block).how # "end")
  /\ UNCHANGED <<name, task, block, raised, level, late, logged, onDisk, events>>

(* Only goto unwinds the stack on its way out.                             *)
Jump ==
  /\ step = "inside" /\ Head(Block).how \in {"goto", "leave", "end"}
  /\ step' = IF Head(Block).handler = "finally" THEN "finally" ELSE "after"
  /\ abnormal' = (Head(Block).how = "goto")
  /\ UNCHANGED <<name, task, block, raised, level, late, logged, onDisk, events>>

FinalHandler ==
  /\ step = "finally" /\ step' = "after"
  /\ WriteAndReport(<<IF abnormal THEN "Abnormal" ELSE "Normal">>,
                    IF block = 1 /\ name = "AbnormalTermination" THEN "divide" ELSE "overflow",
                    "caught")
  /\ UNCHANGED <<name, task, block, raised, level, late, abnormal>>
-----------------------------------------------------------------------------
(* The filters are asked from the inside out; that of RaiseException, and  *)
(* the translator, write to the log.                                       *)
Search ==
  /\ step = "search"
  /\ IF level > Len(Block) THEN step' = "unhandled" /\ UNCHANGED level
     ELSE IF task \in Block[level].accepts THEN step' = "handler" /\ UNCHANGED level
     ELSE level' = level + 1 /\ UNCHANGED step
  /\ IF step' = "handler" /\ name = "RaiseException"
     THEN WriteAndReport(<<"Fatal error">>, Program[name].caught[task], "caught")
     ELSE /\ WriteLog(IF step' = "handler" /\ name = "Translator" THEN <<"translated">> ELSE << >>)
          /\ UNCHANGED events
  /\ UNCHANGED <<name, task, block, raised, late, abnormal>>

Handler ==
  /\ step = "handler" /\ step' = "after"
  /\ IF name = "RaiseException" THEN UNCHANGED <<logged, onDisk, events>>
     ELSE WriteAndReport(<<"Caught">>, Program[name].caught[task], "caught")
  /\ UNCHANGED <<name, task, block, raised, level, late, abnormal>>

(* MyUnhandledExceptionFilter writes and returns EXCEPTION_CONTINUE_SEARCH:*)
(* the process is terminated, without closelog.                            *)
Unhandled ==
  /\ step = "unhandled" /\ step' = "terminated"
  /\ IF name = "UnhandleExceptionFilter"
     THEN WriteAndReport(<<"Unhandled">>, Program[name].caught[task], "caught")
     ELSE UNCHANGED <<logged, onDisk, events>>
  /\ UNCHANGED <<name, task, block, raised, level, late, abnormal>>
-----------------------------------------------------------------------------
NextBlock ==
  /\ step = "after" /\ block < Len(Program[name].blocks[task])
  /\ block' = block + 1 /\ step' = "before"
  /\ WriteLog(<<"outside">>)
  /\ UNCHANGED <<name, task, raised, level, late, abnormal, events>>

(* Goto and Leave report where they arrive as something caught, too.       *)
Outside ==
  /\ step = "after" /\ block = Len(Program[name].blocks[task]) /\ step' = "close"
  /\ IF name \in {"Goto", "Leave"} THEN WriteAndReport(<<"outside">>, "divide", "caught")
     ELSE /\ WriteLog(IF name = "AbnormalTermination" THEN <<"outside">> ELSE << >>)
          /\ UNCHANGED events
  /\ UNCHANGED <<name, task, block, raised, level, late, abnormal>>

Close == /\ step = "close" /\ step' = "exited" /\ CloseLog(<< >>)
         /\ UNCHANGED <<name, task, block, raised, level, late, abnormal, events>>
-----------------------------------------------------------------------------
Init == /\ name \in DOMAIN Program
        /\ task \in IF Program[name].asks THEN Codes ELSE {"divide"}
        /\ block = 1 /\ raised = None /\ level = 1 /\ late = FALSE /\ abnormal = FALSE
        /\ logged = << >> /\ onDisk = 0 /\ events = << >> /\ step = "start"

Next == InitLog \/ Parameters \/ EnterBlock \/ Raise \/ Operation \/ RaisedLate \/ Jump
        \/ FinalHandler \/ Search \/ Handler \/ Unhandled \/ NextBlock \/ Outside \/ Close

Spec == Init /\ [][Next]_vars
-----------------------------------------------------------------------------
Caught == {i \in DOMAIN logged : logged[i] \in {"Caught", "Fatal error", "Unhandled"}}

TypeOK ==
  /\ name \in DOMAIN Program /\ task \in Codes /\ block \in 1 .. 2
  /\ raised \in Codes \cup {None} /\ level \in 1 .. 3
  /\ late \in BOOLEAN /\ abnormal \in BOOLEAN
  /\ onDisk \in 0 .. Len(logged) /\ Len(events) <= 2

(* What a program has logged is in its file when its process is gone, with *)
(* or without closelog, unless the overflow came late: the block that      *)
(* would have caught it is behind.                                         *)
LogKept == step \in {"exited", "terminated"} => onDisk = Len(logged) \/ late

(* What is raised is caught once, by a handler or by the filter of last    *)
(* resort, and the line behind the one that raised it is never reached.    *)
CaughtOnce ==
  step \in {"exited", "terminated"} /\ ~late =>
    /\ \A i, j \in Caught : i = j
    /\ (Caught # {}) = (raised # None)
    /\ "is generated" \notin {logged[i] : i \in DOMAIN logged}
    /\ (step = "terminated") = (raised # None /\ name = "UnhandleExceptionFilter")

(* AbnormalTermination() tells the goto from __leave and from the end.     *)
GotoIsAbnormal ==
  \A i \in DOMAIN logged :
     /\ logged[i] = "Abnormal" => logged[i - 1] = "goto"
     /\ logged[i] = "Normal" => logged[i - 1] \in {"leave", "end"}
=============================================================================
