------------------------------ MODULE StartUp ------------------------------
(***************************************************************************)
(* From "Play EZ2" to a patched game: the injector, the watch over 6th     *)
(* Trax (main.cpp: sixthBackgroundLoop) and the DLL inside the game's      *)
(* process (dll.cpp), on top of the launcher's files (Settings).           *)
(*                                                                         *)
(* One game process at a time: "game" is created suspended by the          *)
(* launcher; "EZ2DJ6th.exe" and "EZ2DJ.exe" (Remember 1st) are started by  *)
(* 6th Trax's own launcher program, which is outside this repository, and  *)
(* found by the watch, which knows a process by its name and the number    *)
(* the system gave it. The system may give that number again. That         *)
(* program's own copy of the DLL, and the hooks that DllMain installs      *)
(* beside the patches, are left out.                                       *)
(***************************************************************************)
EXTENDS Settings

CONSTANTS
  FamilyOf,      \* games[].family
  Lacking,       \* sites that some releases of a game do not have
  Pids,          \* the numbers the system gives to processes
  Patience,      \* polls of the watch without a game before it gives up
  MaxProcesses   \* bound: game processes that are started

VARIABLES
  exe,        \* the executable of the game that runs, or none
  pid,        \* the number of its process
  born,       \* history: game processes started so far
  suspended,  \* the launcher has not resumed its first thread
  early,      \* history: game code ran before DllMain
  release,    \* the sites that this release of the game lacks
  packed,     \* the game has not decrypted its code yet
  image,      \* its code, as patches see it
  dll,        \* the DLL in it: "out", "aborted", or what InitThread does next
  config,     \* what DllMain has loaded: [selected, id, loaded, state]
  settled,    \* history: the phases that found the game's code decrypted
  wanted,     \* history: what was chosen for this game when DllMain ran
  watch,      \* sixthBackgroundLoop: "off", "on" or "over"
  poll,       \* where its loop is, with its pid6th or pid1st, and seen
  unseen,     \* polls since a game was last seen
  lastInjected, \* lastInjected6th, lastInjected1st
  attempts,   \* history: per process, injections after the watch had found it,
  strays      \*   and after it had found another

runningVars == <<exe, pid, born, suspended, early, release, packed>>
processVars == <<runningVars, image>>
dllVars == <<dll, config, settled, wanted>>
watchVars == <<watch, poll, unseen, lastInjected, attempts, strays>>
vars == <<settingsVars, processVars, dllVars, watchVars>>

ASSUME StartUpAssumption ==
  Lacking \subseteq Sites /\ Pids \subseteq Nat \ {0} /\ Patience \in Nat /\ MaxProcesses \in Nat

Sixth == "EZ2DJ6th.exe"
First == "EZ2DJ.exe"
Watched == {Sixth, First}

AllSites == Sites \cup {VersionSite}
Packed == [s \in AllSites |-> PackedByte]
\* Releases of a game differ in their code.
Decrypted(lacking) ==
  [s \in AllSites |-> IF s \in lacking THEN [by |-> "release", value |-> 0] ELSE CodeByte]
NoConfig == [selected |-> None, id |-> None, loaded |-> Missing, state |-> << >>]

FirstLook == [step |-> "look", name |-> Sixth, found |-> 0, who |-> 0, seen |-> FALSE]

Init ==
  /\ SettingsInit
  /\ exe = None /\ pid = 0 /\ born = 0 /\ suspended = FALSE /\ early = FALSE
  /\ release = {} /\ packed = TRUE /\ image = Packed
  /\ dll = "out" /\ config = NoConfig /\ settled = {} /\ wanted = {}
  /\ watch = "off" /\ poll = FirstLook /\ unseen = 0
  /\ lastInjected = [w \in Watched |-> 0]
  /\ attempts = [i \in 1..MaxProcesses |-> 0] /\ strays = [i \in 1..MaxProcesses |-> 0]

-----------------------------------------------------------------------------
(* dll.cpp: inside the game *)

\* patchesForGame: an unknown game has no patches.
For(f, id) == IF id \in DOMAIN f THEN f[id] ELSE << >>

FamilyFromGameId(id) == IF id \in DOMAIN FamilyOf THEN FamilyOf[id] ELSE "EZ2DJ"

Patches == For(Loads[config.loaded], config.id)

Apply(on, list, st, timing) ==
  /\ image' = ApplyPatches(on, list, st, timing)
  /\ settled' = IF packed THEN settled ELSE settled \cup {timing}

\* resolveRemember1st
Resolve(id, name) ==
  IF id = "ez2dj_6th" /\ name = First THEN "rmbr_1st" ELSE id

\* loadSettings and earlyInit; the super-early patches are those of the game
\* selected, before Remember 1st is resolved. Without settings that can be
\* read nothing is hooked, and InitThread aborts. (The launcher has always
\* written both files, so that the load never creates one here.)
DllMain(name) ==
  IF gameFile.kind = "whole" /\ globalFile.kind = "whole"
  THEN LET g == gameFile.content
           defs == Loads[patchesFile]
           st == LoadState(defs, g.patches)
           id == Resolve(g.id, name)
       IN  /\ Apply(image, For(defs, g.id), For(st, g.id), "super_early")
           /\ config' = [selected |-> g.id, id |-> id, loaded |-> patchesFile,
                         state |-> For(st, id)]
           /\ wanted' = IF id = None THEN {} ELSE chosen[id]
           /\ dll' = "io"
  ELSE dll' = "aborted" /\ UNCHANGED <<config, image, settled, wanted>>

Unloaded == UNCHANGED <<image, dllVars>>

\* LoadLibraryA in the process: DllMain is for the first load only. Whether
\* there was one, the thread's exit code, is not looked at.
LoadLibrary(name) == (dll = "out" /\ DllMain(name)) \/ Unloaded

\* InitThread: input and ports, then after a pause the early patches, then
\* after a longer one the version string and all others.
InitialiseIO ==
  /\ dll = "io"
  /\ dll' = "early"
  /\ UNCHANGED <<settingsVars, processVars, config, settled, wanted, watchVars>>

ApplyEarlyPatches ==
  /\ dll = "early"
  /\ Apply(image, Patches, config.state, "early")
  /\ dll' = "normal"
  /\ UNCHANGED <<settingsVars, runningVars, config, wanted, watchVars>>

ApplyNormalPatches ==
  /\ dll = "normal"
  /\ LET versioned == IF FamilyFromGameId(config.id) \in {"EZ2DJ", "EZ2Dancer"}
                      THEN ApplyVersionPatch(image) ELSE image
     IN  Apply(versioned, Patches, config.state, "normal")
  /\ dll' = "done"
  /\ UNCHANGED <<settingsVars, runningVars, config, wanted, watchVars>>

-----------------------------------------------------------------------------
(* launchGame and Injector::LaunchAndInject *)

rest == <<fileVars, next, memoryVars, historyVars, countVars>>

\* Whether a game is packed is its own business, its number the system's.
NewProcess(name, stopped) ==
  /\ exe = None /\ born < MaxProcesses
  /\ exe' = name /\ pid' \in Pids /\ born' = born + 1 /\ suspended' = stopped
  /\ release' \in {{}, Lacking} /\ packed' \in BOOLEAN
  /\ image' = IF packed' THEN Packed ELSE Decrypted(release')
  /\ UNCHANGED <<early, dllVars>>

Gone ==
  /\ exe' = None /\ pid' = 0 /\ suspended' = FALSE /\ early' = FALSE
  /\ release' = {} /\ packed' = TRUE /\ image' = Packed
  /\ dll' = "out" /\ config' = NoConfig /\ settled' = {} /\ wanted' = {}

\* Mutant: the process is not created suspended.
PlayRunning ==
  /\ ui = "window" /\ game.id # "ez2dj_6th"
  /\ NewProcess("game", FALSE)
  /\ ui' = "launching"
  /\ UNCHANGED <<rest, watchVars>>

Play ==
  /\ ui = "window" /\ game.id # "ez2dj_6th"
  /\ NewProcess("game", TRUE)
  /\ ui' = "launching"
  /\ UNCHANGED <<rest, watchVars>>

PlayFails == \* there is no such executable
  /\ ui = "window" /\ game.id # "ez2dj_6th"
  /\ ui' = "off"
  /\ UNCHANGED <<rest, processVars, dllVars, watchVars>>

\* InjectDll waits for LoadLibraryA, and DllMain in it, to return, and takes
\* the DLL for loaded.
InjectSuspended ==
  /\ ui = "launching"
  /\ LoadLibrary("game")
  /\ ui' = "injected"
  /\ UNCHANGED <<rest, runningVars, watchVars>>

InjectFails == \* no memory or no thread in the process: it is terminated
  /\ ui = "launching"
  /\ Gone /\ ui' = "off"
  /\ UNCHANGED <<rest, born, watchVars>>

ResumeThread ==
  /\ ui = "injected"
  /\ suspended' = FALSE /\ ui' = "off"
  /\ UNCHANGED <<rest, exe, pid, born, early, release, packed, image, dllVars, watchVars>>

-----------------------------------------------------------------------------
(* sixthBackgroundLoop: every poll looks for both executables by name *)

PlaySixth ==
  /\ ui = "window" /\ game.id = "ez2dj_6th" /\ watch # "on"
  /\ ui' = "off"
  /\ watch' = "on" /\ poll' = FirstLook /\ unseen' = 0
  /\ lastInjected' = [w \in Watched |-> 0]
  /\ UNCHANGED <<rest, processVars, dllVars, attempts, strays>>

\* After one name the other, after both the decision to go on.
Onwards(seen) ==
  IF poll.name = Sixth THEN [FirstLook EXCEPT !.name = First, !.seen = seen]
                       ELSE [FirstLook EXCEPT !.step = "decide", !.seen = seen]

\* Mutant: an executable is injected once, not each of its processes.
IsNewOnce(number) == lastInjected[poll.name] = 0

\* Mutant: what was injected is not compared.
IsNewAlways(number) == TRUE

IsNew(number) == lastInjected[poll.name] # number

\* FindProcess
WatchLooks ==
  /\ watch = "on" /\ poll.step = "look"
  /\ LET number == IF exe = poll.name THEN pid ELSE 0
         seen == poll.seen \/ number # 0
     IN  poll' = IF number # 0 /\ IsNew(number)
                 THEN [poll EXCEPT !.step = "inject", !.found = number, !.who = born, !.seen = seen]
                 ELSE Onwards(seen)
  /\ UNCHANGED <<settingsVars, processVars, dllVars, watch, unseen, lastInjected, attempts,
                 strays>>

\* InjectRunningProcess looks the name up again, and may find another process
\* or none. What was found first is noted, even if nothing was injected.
WatchInjects ==
  /\ watch = "on" /\ poll.step = "inject"
  /\ IF exe = poll.name
     THEN /\ LoadLibrary(exe)
          /\ attempts' = [attempts EXCEPT ![born] = IF poll.who = born THEN @ + 1 ELSE @]
          /\ strays' = [strays EXCEPT ![born] = IF poll.who = born THEN @ ELSE @ + 1]
     ELSE Unloaded /\ UNCHANGED <<attempts, strays>>
  /\ lastInjected' = [lastInjected EXCEPT ![poll.name] = poll.found]
  /\ poll' = Onwards(TRUE)
  /\ UNCHANGED <<settingsVars, runningVars, watch, unseen>>

\* A game that starts after the looks is not seen.
WatchDecides ==
  /\ watch = "on" /\ poll.step = "decide"
  /\ unseen' = IF poll.seen THEN 0 ELSE unseen + 1
  /\ watch' = IF unseen' > Patience THEN "over" ELSE "on"
  /\ poll' = FirstLook
  /\ UNCHANGED <<settingsVars, processVars, dllVars, lastInjected, attempts, strays>>

-----------------------------------------------------------------------------
(* The game, and 6th Trax's launcher program *)

TraxStarts(name) ==
  /\ watch # "off"
  /\ NewProcess(name, FALSE)
  /\ UNCHANGED <<settingsVars, watchVars>>

GameRuns ==
  /\ exe # None /\ ~suspended /\ dll = "out"
  /\ early' = TRUE
  /\ UNCHANGED <<settingsVars, exe, pid, born, suspended, release, packed, image, dllVars,
                 watchVars>>

\* A packed game unpacks over whatever was written before.
GameDecrypts ==
  /\ exe # None /\ ~suspended
  /\ packed /\ packed' = FALSE
  /\ image' = Decrypted(release)
  /\ UNCHANGED <<settingsVars, exe, pid, born, suspended, early, release, dllVars, watchVars>>

GameExits ==
  /\ exe # None /\ ui \notin {"launching", "injected"}
  /\ Gone
  /\ UNCHANGED <<settingsVars, born, watchVars>>

Launcher == SettingsNext /\ UNCHANGED <<processVars, dllVars, watchVars>>

\* The watch is a loop that sleeps between its polls.
WatchLoop == WatchLooks \/ WatchInjects \/ WatchDecides

Next ==
  \/ Launcher
  \/ Play \/ PlayFails \/ InjectSuspended \/ InjectFails \/ ResumeThread \/ PlaySixth
  \/ WatchLoop
  \/ InitialiseIO \/ ApplyEarlyPatches \/ ApplyNormalPatches
  \/ \E name \in Watched : TraxStarts(name)
  \/ GameRuns \/ GameDecrypts \/ GameExits

-----------------------------------------------------------------------------
TypeOK ==
  /\ SettingsTypeOK
  /\ exe \in Watched \cup {"game", None}
  /\ pid \in Pids \cup {0} /\ born \in 0..MaxProcesses
  /\ suspended \in BOOLEAN /\ early \in BOOLEAN
  /\ release \subseteq Sites /\ packed \in BOOLEAN /\ DOMAIN image = AllSites
  /\ dll \in {"out", "aborted", "io", "early", "normal", "done"}
  /\ settled \subseteq Timing
  /\ \A w \in wanted : w.patch \in Defined /\ w.timing \in Timing
  /\ watch \in {"off", "on", "over"} /\ unseen \in 0..Patience + 1
  /\ poll.step \in {"look", "inject", "decide"} /\ poll.name \in Watched
  /\ poll.found \in Pids \cup {0} /\ poll.who \in 0..MaxProcesses /\ poll.seen \in BOOLEAN
  /\ lastInjected \in [Watched -> Pids \cup {0}]
  /\ attempts \in [1..MaxProcesses -> Nat] /\ strays \in [1..MaxProcesses -> Nat]

-----------------------------------------------------------------------------
(* What a choice comes to in the game's code *)

\* Where a group matches in this release.
Found(group) == IF group.rva THEN group.sites ELSE group.sites \ release

Places(p) ==
  IF p.type = "value" THEN {p.offset} ELSE UNION {Found(p.groups[i]) : i \in DOMAIN p.groups}

Touches(p) ==
  IF p.type = "value" THEN {p.offset} ELSE UNION {p.groups[i].sites : i \in DOMAIN p.groups}

\* Nothing else that was chosen writes where the patch does, nor do two of
\* its own groups.
Alone(p) ==
  /\ VersionSite \notin Touches(p)
  /\ \A w \in wanted : w.patch # p => Touches(w.patch) \cap Touches(p) = {}
  /\ \A i, j \in DOMAIN p.groups : i # j => p.groups[i].sites \cap p.groups[j].sites = {}

\* The release has a place for every group.
Fits(p) == p.type = "value" \/ \A i \in DOMAIN p.groups : Found(p.groups[i]) # {}

Byte(w) == [by |-> w.patch.id, value |-> IF w.patch.type = "value" THEN w.value ELSE 0]

InImage(w) == \A s \in Places(w.patch) : image[s] = Byte(w)

OnlyChosen ==
  \A s \in AllSites :
    image[s].by \in {"game", "packer", "release", "2EZConfig"} \cup {w.patch.id : w \in wanted}

ChosenHolds ==
  \A w \in wanted : w.timing \in settled /\ Alone(w.patch) /\ Fits(w.patch) => InImage(w)

\* DllMain looks for super-early patches before it knows Remember 1st.
Overtaken ==
  /\ config.id # config.selected
  /\ \E g \in {config.id, config.selected} : \E i \in DOMAIN For(Loads[config.loaded], g) :
       For(Loads[config.loaded], g)[i].apply = "super_early"

\* When InitThread is through, whatever in the game's code is a patch's is
\* one that the user had chosen for this game as last saved; and what was
\* chosen is in the code, with the option chosen, if the game had decrypted
\* it by then, the release has all the patch's places and nothing else that
\* was chosen is for the same ones. The choice survives the files, the merge
\* of bundled, shared and user patches, the nested state and the three
\* phases (patch_store.cpp, main.cpp: renderPatchRow, selectGame; dll.cpp:
\* InitThread).
ImageIsChosen == dll = "done" /\ ~Overtaken => OnlyChosen /\ ChosenHolds

\* If the DLL gets into a game that the launcher starts, the game has run no
\* code of its own before: the super-early patches are in time (injector.cpp:
\* LaunchAndInject).
DllIsNotLate == exe = "game" /\ dll # "out" => ~early

\* The watch injects a process that it has found once, and one that it has
\* not found, but that had taken the name by the injection's own look, once:
\* never at every poll, twenty times a second (main.cpp: sixthBackgroundLoop;
\* injector.cpp: InjectRunningProcess).
InjectedOnce == \A i \in 1..MaxProcesses : attempts[i] <= 1 /\ strays[i] <= 1

\* While the watch lasts, every game that 6th Trax starts, and goes back and
\* forth between, is tried or ends, unless the system has given it the number
\* that was noted last for its name (main.cpp: sixthBackgroundLoop).
GameIsFollowed ==
  \A i \in 1..MaxProcesses :
    (watch = "on" /\ born = i /\ exe \in Watched)
      ~> \/ attempts[i] + strays[i] >= 1
         \/ born # i \/ exe \notin Watched \/ watch = "over"
         \/ pid = lastInjected[exe]
=============================================================================
