-------------------------- MODULE SystemInformation --------------------------
(***************************************************************************)
(* SystemInformation: main prints one section after the other, each from   *)
(* what MySystem asks of Windows at that time, while drives and devices    *)
(* come and go.  A device has a class; the classes of all devices that     *)
(* were ever known are collected first, then the present ones by class.    *)
(***************************************************************************)
EXTENDS Integers, Sequences, SequencesExt, FiniteSets

CONSTANTS Drives,
          classOf,             \* the class of each device, a function
          Nothing              \* what an uninitialized device says

VARIABLES uptime,              \* since the start of Windows, in units of 8 ms
          volumes, present, adapters, screens,       \* what there is
          section, shownUptime, letters, shownVolumes, shownAdapters, shownScreens,
          allClassGuids, class,                      \* the classes, and which one it is at
          items, iIdx, did,                          \* the list of devices being read
          result, failed,      \* what is listed, and whether a call has failed
          seen                 \* the devices present all the time

worldVars == <<uptime, adapters, screens>>
shownVars == <<shownUptime, shownVolumes, shownAdapters, shownScreens>>
listVars == <<allClassGuids, class, items, iIdx, did, result, failed>>
sysVars == <<worldVars, volumes, present, section, shownVars, letters, listVars, seen>>

Devices == DOMAIN classOf
Device(d) == [class |-> classOf[d], id |-> d]

Second == 125
Minute == 60 * Second
Hour == 60 * Minute
Day == 24 * Hour
Wrap == 2 ^ 29                 \* 2^32 ms: an unsigned long has 32 bits
-----------------------------------------------------------------------------
(* Mutant: the hours are taken from all of the time.                       *)
UptimeNoRemainder(ticks) ==
  LET time == ticks % Wrap
  IN [days |-> time \div Day, hours |-> time \div Hour,
      minutes |-> (time % Hour) \div Minute, seconds |-> (time % Minute) \div Second]

GetUptimeInformation(ticks) ==
  LET time == ticks % Wrap
  IN [days |-> time \div Day, hours |-> (time % Day) \div Hour,
      minutes |-> (time % Hour) \div Minute, seconds |-> (time % Minute) \div Second]

ShowUptime ==
  /\ section = "general" /\ section' = "video"
  /\ shownUptime' = GetUptimeInformation(uptime)
  /\ UNCHANGED <<worldVars, volumes, present, shownVolumes, shownAdapters, shownScreens, letters,
                 listVars, seen>>

(* The devices that are active, and nothing for the one behind the last.   *)
GetVideoInformation ==
  /\ section = "video" /\ section' = "drives"
  /\ shownScreens' = SelectSeq(screens, LAMBDA active : active)
  /\ letters' = SetToSeq(volumes)
  /\ UNCHANGED <<worldVars, volumes, present, shownUptime, shownVolumes, shownAdapters, listVars,
                 seen>>

(* The letters are asked for once; a drive may be gone when its turn comes.*)
GetVolumeInformation ==
  /\ section = "drives"
  /\ IF letters = << >> THEN section' = "adapters" /\ UNCHANGED <<letters, shownVolumes>>
     ELSE /\ shownVolumes' = Append(shownVolumes, [letter |-> Head(letters),
                                                   data |-> Head(letters) \in volumes])
          /\ letters' = Tail(letters) /\ UNCHANGED section
  /\ UNCHANGED <<worldVars, volumes, present, shownUptime, shownAdapters, shownScreens, listVars,
                 seen>>

(* The buffer has room for one adapter: with two the call fails.           *)
GetConnectionInformation ==
  /\ section = "adapters" /\ section' = "classes"
  /\ shownAdapters' = IF adapters <= 1 THEN adapters ELSE 0
  /\ items' = SetToSeq(Devices)              \* DIGCF_ALLCLASSES: those not present, too
  /\ UNCHANGED <<worldVars, volumes, present, shownUptime, shownVolumes, shownScreens, letters,
                 allClassGuids, class, iIdx, did, result, failed, seen>>
-----------------------------------------------------------------------------
(* SetupDiEnumDeviceInfo.  When it fails and there are more, the loop goes *)
(* on with what did holds from the time before, if anything.               *)
Enumerated ==
  /\ iIdx < Len(items) /\ iIdx' = iIdx + 1
  /\ \/ did' = Device(items[iIdx + 1]) /\ UNCHANGED failed
     \/ UNCHANGED did /\ failed' = TRUE

CollectClass ==
  /\ section = "classes" /\ Enumerated
  /\ allClassGuids' = IF Contains(allClassGuids, did'.class) THEN allClassGuids
                      ELSE Append(allClassGuids, did'.class)
  /\ UNCHANGED <<worldVars, volumes, present, section, shownVars, letters, class, items, result,
                 seen>>

(* The list of a class is what is present when it is asked for.            *)
OpenClass(n) ==
  /\ class' = n /\ iIdx' = 0
  /\ IF n > Len(allClassGuids) THEN section' = "devices" /\ items' = << >>
     ELSE /\ section' = "listing"
          /\ items' = SetToSeq({d \in present : classOf[d] = allClassGuids[n]})
  /\ UNCHANGED <<worldVars, volumes, present, shownVars, letters, allClassGuids, did, result,
                 failed, seen>>

ClassesCollected == section = "classes" /\ iIdx = Len(items) /\ OpenClass(1)
NextClass == section = "listing" /\ iIdx = Len(items) /\ OpenClass(class + 1)

(* Mutant: a device that is listed is not looked for again, nor the next.  *)
ListEverySecond ==
  /\ section = "listing" /\ iIdx < Len(items) /\ iIdx' = Min({iIdx + 2, Len(items)})
  /\ did' = Device(items[iIdx + 1])
  /\ result' = Append(result, did')
  /\ UNCHANGED <<worldVars, volumes, present, section, shownVars, letters, allClassGuids, class,
                 items, failed, seen>>

(* A property that is not set is asked for with a size of 0 and is a single*)
(* byte then, of which a wchar_t is read.                                  *)
ListDevice ==
  /\ section = "listing" /\ Enumerated
  /\ result' = Append(result, did')
  /\ UNCHANGED <<worldVars, volumes, present, section, shownVars, letters, allClassGuids, class,
                 items, seen>>
-----------------------------------------------------------------------------
(* External: drives and devices are plugged in and out.                    *)
PlugDrive(d) ==
  /\ section = "drives" /\ volumes' = SymDiff(volumes, {d})
  /\ UNCHANGED <<worldVars, present, section, shownVars, letters, listVars, seen>>

PlugDevice(d) ==
  /\ section = "listing" /\ present' = SymDiff(present, {d}) /\ seen' = seen \ {d}
  /\ UNCHANGED <<worldVars, volumes, section, shownVars, letters, listVars>>
-----------------------------------------------------------------------------
Init ==
  /\ uptime \in {0, Day - Second, 49 * Day + Hour, Wrap + Minute}
  /\ volumes \in SUBSET Drives /\ present \in SUBSET Devices /\ seen = present
  /\ adapters \in 0 .. 2 /\ screens \in {<<TRUE>>, <<TRUE, FALSE>>}
  /\ section = "general" /\ shownUptime = << >> /\ letters = << >> /\ shownVolumes = << >>
  /\ shownAdapters = 0 /\ shownScreens = << >>
  /\ allClassGuids = << >> /\ class = 0 /\ items = << >> /\ iIdx = 0
  /\ did = [class |-> Nothing, id |-> Nothing] /\ result = << >> /\ failed = FALSE

Next ==
  \/ ShowUptime \/ GetVideoInformation \/ GetVolumeInformation \/ GetConnectionInformation
  \/ CollectClass \/ ClassesCollected \/ ListDevice \/ NextClass
  \/ (\E d \in Drives : PlugDrive(d)) \/ (\E d \in Devices : PlugDevice(d))

Spec == Init /\ [][Next]_sysVars
-----------------------------------------------------------------------------
Listed(d) == {i \in DOMAIN result : result[i] = Device(d)}

(* A device that was there all the time is listed, once, and no other is   *)
(* listed that was not there at all, as long as no call fails.             *)
DevicesListed ==
  section = "devices" /\ ~failed =>
    /\ \A d \in seen : Cardinality(Listed(d)) = 1
    /\ \A i \in DOMAIN result : result[i].id \in Devices

(* The time shown is the time since the start, until 49.7 days are over.   *)
UptimeShown ==
  shownUptime # << >> =>
    LET shown == ((shownUptime.days * 24 + shownUptime.hours) * 60 + shownUptime.minutes) * 60
                   + shownUptime.seconds
    IN /\ shownUptime.hours < 24 /\ shownUptime.minutes < 60 /\ shownUptime.seconds < 60
       /\ uptime < Wrap => shown = uptime \div Second
       /\ uptime >= Wrap => shown < uptime \div Second
=============================================================================
