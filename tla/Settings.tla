------------------------------ MODULE Settings ------------------------------
(***************************************************************************)
(* The launcher (main.cpp) as the writer of the files the DLL reads back:  *)
(* patches.json, extracted when missing or outdated, and the two settings  *)
(* files, which SettingsManager::save truncates and rewrites together.     *)
(* Streams are buffered: what fits the buffer reaches its file when it is  *)
(* closed, and the stream opened last is closed first; a longer text is    *)
(* handed to the system at once. The launcher may be killed at any moment, *)
(* and started again; the system keeps what it was handed.                 *)
(***************************************************************************)
EXTENDS PatchStore

CONSTANTS
  Games,        \* the games of the table in game_defs.h that are modelled
  Bundled,      \* patches.json by version, the last one inside the launcher
  UserPatches,  \* user-patches.json
  MaxEdits,     \* bound: changes made in the window
  MaxCrashes    \* bound: times the launcher is killed

VARIABLES
  patchesFile, gameFile, globalFile,  \* the files; of patches.json its version
  ui, next,     \* where the launcher is, and where it goes after a save
  game,         \* m_gameSettings: [id, patches]
  global,       \* m_globalSettings: io_emu
  loaded,       \* m_patches: the patches.json its definitions are from,
  state,        \*   and what is enabled
  asked,        \* history: what the files should hold, while a save is not
                \*   through both as before and as asked for
  chosen,       \* history: per game, the patches chosen as last saved
  edits, crashes

fileVars == <<patchesFile, gameFile, globalFile>>
memoryVars == <<game, global, loaded, state>>
historyVars == <<asked, chosen>>
countVars == <<edits, crashes>>
settingsVars == <<fileVars, ui, next, memoryVars, historyVars, countVars>>

None == ""     \* no game_id

\* 6th Trax comes with Remember 1st.
ASSUME SettingsAssumption ==
  /\ Games # {} /\ None \notin Games
  /\ "ez2dj_6th" \in Games => "rmbr_1st" \in Games
  /\ Bundled \in Seq(ToSet(Bundled)) \ {<< >>}
  /\ MaxEdits \in Nat /\ MaxCrashes \in Nat

DefaultGame == [id |-> None, patches |-> << >>]
Embedded == Len(Bundled)

\* What patch_store.cpp's load makes of each patches.json.
Loads == [f \in {Missing, Torn} \cup {Whole(v) : v \in DOMAIN Bundled} |->
            Load(f, Bundled, UserPatches, Games)]

ASSUME LoadsAssumption == \A f \in DOMAIN Loads : Loads[f] \in [Games -> Seq(Defined)]

store == Loads[loaded]

Pair(settings, globals) == [game |-> settings, global |-> globals]

SettingsInit ==
  /\ patchesFile \in {Missing, Whole(1)}
  /\ gameFile = Missing /\ globalFile = Missing
  /\ ui = "off" /\ next = "off"
  /\ game = DefaultGame /\ global = TRUE
  /\ loaded = Missing /\ state = LoadState(store, << >>)
  /\ asked = {Pair(game, global)} /\ chosen = [g \in Games |-> {}]
  /\ edits = 0 /\ crashes = 0

-----------------------------------------------------------------------------
(* SettingsManager::save, in the steps that a reader or a crash can divide *)

\* Opening a stream truncates its file.
BeginSave(before, then) ==
  /\ asked' = {before, Pair(game', global')}
  /\ gameFile' = Torn
  /\ ui' = "saving" /\ next' = then

GameFileIsWhole ==
  /\ gameFile' = Whole(game)
  /\ chosen' = [g \in Games |-> Chosen(store[g], state[g])]

\* m_gameSettings does not fit the stream's buffer.
SaveWritesGame ==
  /\ ui = "saving" /\ gameFile = Torn
  /\ GameFileIsWhole
  /\ UNCHANGED <<patchesFile, globalFile, ui, next, memoryVars, asked, countVars>>

SaveOpensGlobal ==
  /\ ui = "saving"
  /\ globalFile' = Torn
  /\ ui' = "opened"
  /\ UNCHANGED <<patchesFile, gameFile, next, memoryVars, historyVars, countVars>>

SaveClosesGlobal ==
  /\ ui = "opened"
  /\ globalFile' = Whole(global)
  /\ ui' = "closing"
  /\ UNCHANGED <<patchesFile, gameFile, next, memoryVars, historyVars, countVars>>

SaveClosesGame ==
  /\ ui = "closing"
  /\ GameFileIsWhole
  /\ ui' = next
  /\ asked' = {Pair(game, global)}
  /\ UNCHANGED <<patchesFile, globalFile, next, memoryVars, countVars>>

-----------------------------------------------------------------------------
(* main, up to the window *)

\* A file that does not parse is left as it is.
Outdated == \/ patchesFile = Missing
            \/ patchesFile.kind = "whole" /\ Embedded > patchesFile.content

LauncherStarts ==
  /\ ui = "off"
  /\ patchesFile' = IF Outdated THEN Torn ELSE patchesFile
  /\ ui' = IF Outdated THEN "extracting" ELSE "loading"
  /\ UNCHANGED <<gameFile, globalFile, next, memoryVars, historyVars, countVars>>

PatchesExtracted ==
  /\ ui = "extracting"
  /\ patchesFile' = Whole(Embedded)
  /\ ui' = "loading"
  /\ UNCHANGED <<gameFile, globalFile, next, memoryVars, historyVars, countVars>>

Content(file, default) == IF file = Missing THEN default ELSE file.content

\* Mutant: the saved state is handed to the store before it has loaded its
\* definitions.
LoadSettingsStateFirst ==
  /\ ui = "loading"
  /\ Torn \notin {gameFile, globalFile}
  /\ game' = Content(gameFile, DefaultGame)
  /\ global' = Content(globalFile, TRUE)
  /\ loaded' = patchesFile
  /\ state' = LoadState(store, game'.patches)
  /\ IF Missing \in {gameFile, globalFile}
     THEN BeginSave(Pair(game', global'), "detecting")
     ELSE ui' = "detecting" /\ UNCHANGED <<asked, gameFile, next>>
  /\ UNCHANGED <<patchesFile, globalFile, chosen, countVars>>

\* SettingsManager::load. An empty file makes the parser throw, which
\* nothing in main catches.
LoadSettings ==
  /\ ui = "loading"
  /\ Torn \notin {gameFile, globalFile}
  /\ game' = Content(gameFile, DefaultGame)
  /\ global' = Content(globalFile, TRUE)
  /\ loaded' = patchesFile
  /\ state' = LoadState(Loads[patchesFile], game'.patches)
  /\ IF Missing \in {gameFile, globalFile}
     THEN BeginSave(Pair(game', global'), "detecting")
     ELSE ui' = "detecting" /\ UNCHANGED <<asked, gameFile, next>>
  /\ UNCHANGED <<patchesFile, globalFile, chosen, countVars>>

LoadSettingsThrows ==
  /\ ui = "loading"
  /\ Torn \in {gameFile, globalFile}
  /\ ui' = "off"
  /\ UNCHANGED <<fileVars, next, memoryVars, historyVars, countVars>>

\* autoDetectGame: what the directory holds is saved; the fallback, EZ2DJ
\* 1st, is shown only.
AutoDetect(found) ==
  /\ ui = "detecting"
  /\ UNCHANGED global
  /\ IF game.id = None /\ found # None
     THEN game' = [game EXCEPT !.id = found] /\ BeginSave(Pair(game, global), "window")
     ELSE ui' = "window" /\ UNCHANGED <<game, asked, gameFile, next>>
  /\ UNCHANGED <<patchesFile, globalFile, loaded, state, chosen, countVars>>

\* The process is killed.
Crash ==
  /\ ui # "off" /\ crashes < MaxCrashes
  /\ ui' = "off" /\ crashes' = crashes + 1
  /\ UNCHANGED <<fileVars, next, memoryVars, historyVars, edits>>

-----------------------------------------------------------------------------
(* The window: every change is saved at once *)

Edit ==
  /\ ui = "window" /\ edits < MaxEdits
  /\ edits' = edits + 1
  /\ BeginSave(Pair(game, global), "window")
  /\ UNCHANGED <<patchesFile, globalFile, loaded, chosen, crashes>>

SelectGame(g) ==
  /\ game' = [game EXCEPT !.id = g, !.patches = SaveState(state, SavedGames(g, Games))]
  /\ UNCHANGED <<global, state>>
  /\ Edit

PatchRow(g, p, new) ==
  /\ state' = [state EXCEPT ![g][p.id] = new]
  /\ game' = [game EXCEPT !.patches = SaveState(state', SavedGames(game.id, Games))]
  /\ UNCHANGED global
  /\ Edit

TogglePatch(g, p) == PatchRow(g, p, [state[g][p.id] EXCEPT !.enabled = ~@])

PickOption(g, p) ==
  /\ p.type = "value"
  /\ PatchRow(g, p, [state[g][p.id] EXCEPT !.value = 1 - @])

\* Mutant: the value changes without a save.
CheckboxUnsaved ==
  /\ ui = "window" /\ edits < MaxEdits
  /\ edits' = edits + 1
  /\ global' = ~global
  /\ UNCHANGED <<fileVars, ui, next, game, loaded, state, historyVars, crashes>>

\* globalCheckbox; what gameCheckbox and the text fields change in
\* m_gameSettings is read by nothing modelled here.
Checkbox ==
  /\ global' = ~global
  /\ UNCHANGED <<game, state>>
  /\ Edit

EditNext ==
  \/ \E g \in Games : SelectGame(g)
  \/ \E g \in SavedGames(game.id, Games) : \E p \in Rows(store[g], state[g]) :
       TogglePatch(g, p) \/ PickOption(g, p)
  \/ Checkbox

SettingsNext ==
  \/ LauncherStarts \/ PatchesExtracted \/ LoadSettings \/ LoadSettingsThrows
  \/ \E found \in Games \cup {None} : AutoDetect(found)
  \/ SaveWritesGame \/ SaveOpensGlobal \/ SaveClosesGlobal \/ SaveClosesGame
  \/ EditNext
  \/ Crash

-----------------------------------------------------------------------------
SettingsTypeOK ==
  /\ ui \in {"off", "extracting", "loading", "detecting", "window", "launching",
             "injected", "saving", "opened", "closing"}
  /\ next \in {"off", "detecting", "window"}
  /\ {patchesFile.kind, gameFile.kind, globalFile.kind}
       \subseteq {"missing", "torn", "whole"}
  /\ game.id \in Games \cup {None} /\ global \in BOOLEAN
  /\ \A g \in Games : DOMAIN state[g] = {p.id : p \in Tree(store[g])}
  /\ edits \in 0..MaxEdits /\ crashes \in 0..MaxCrashes

\* The two files are written one after the other, and yet whoever can read
\* them reads the settings of one save, the last or the one before, wherever
\* a save was cut short: no operation changes both between two saves, and
\* none changes either without one (settings.cpp: save; main.cpp).
ReadsOneSave ==
  Torn \notin {gameFile, globalFile}
    => Pair(Content(gameFile, DefaultGame), Content(globalFile, TRUE)) \in asked

=============================================================================
