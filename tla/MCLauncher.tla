---------------------------- MODULE MCLauncher ----------------------------
(* The launcher in two runs: one in which the user edits bindings, and one  *)
(* in which games are patched, started and found. They share the settings  *)
(* file only, in parts that neither looks at of the other's.               *)
(*                                                                         *)
(* Three games: 6th Trax and Remember 1st, which share a directory, and    *)
(* one with a patch of every shape: scan groups, a nested patch, a value, a *)
(* super-early patch, one shared, one replaced by the user's.              *)
EXTENDS StartUp, BindingEditor

MCGames == {"ez2dj_6th", "rmbr_1st", "ez2ac_nt"}
MCFamilyOf == [g \in MCGames |-> "EZ2DJ"]
MCSites == {"a", "b", "c"}
MCLacking == {"a"}
MCPids == {4, 8}

Patch(id, type, apply, groups, offset, children) ==
  [id |-> id, type |-> type, apply |-> apply, bad |-> FALSE, groups |-> groups,
   offset |-> offset, default |-> 0, children |-> children]
Toggle(id, apply, groups, children) == Patch(id, "toggle", apply, groups, "a", children)
Scan(sites) == [rva |-> FALSE, sites |-> sites]
Rva(site) == [rva |-> TRUE, sites |-> {site}]

Skin == Patch("skin", "value", "normal", << >>, "c", << >>)
Credits == Toggle("credits", "super_early", <<Rva("b")>>, << >>)
Spotlight == Toggle("spotlight", "early", <<Scan({"a"}), Scan({"b"})>>, <<Skin>>)
Sixty == Toggle("sixty", "early", <<Scan({"a", "c"})>>, << >>)
SixtyUser == Toggle("sixty", "normal", <<Rva("a")>>, << >>)
Typo == [Toggle("typo", "normal", <<Rva("c")>>, << >>) EXCEPT !.bad = TRUE]

MCDefined == {Skin, Credits, Spotlight, Sixty, SixtyUser, Typo}

\* An older patches.json lacks the nested and the shared patch.
MCBundled ==
  <<[games  |-> <<[game |-> "ez2ac_nt", patches |-> <<Credits>>]>>,
     shared |-> << >>],
    [games  |-> <<[game |-> "ez2ac_nt", patches |-> <<Credits, Spotlight>>]>>,
     shared |-> <<[patch |-> Sixty, games |-> {"ez2dj_6th", "rmbr_1st"}]>>]>>
\* The user's second game does not parse.
MCUserPatches ==
  <<[game |-> "ez2dj_6th", patches |-> <<SixtyUser>>],
    [game |-> "rmbr_1st", patches |-> <<SixtyUser, Typo>>]>>

\* For the watch, whatever it injects.
MCUnpatched == <<[games |-> << >>, shared |-> << >>]>>
MCNoPatches == << >>

\* A turntable with a mouse and a virtual turntable key.
MCStored ==
  {[NoAnalog EXCEPT !.minus = Key, !.step = 9, !.mouse = "mouse", !.mouseAxis = 1,
                    !.sensitivity = 9]}
MCButtonCount == [EZ2DJ |-> 2, EZ2Dancer |-> 1]
MCControls == [buttons |-> {"b"}, hats |-> {"h"}]

VARIABLE editing

LauncherVars == <<editing, vars, editorVars>>

LauncherInit ==
  /\ editing \in BOOLEAN
  /\ Init /\ EditorInit
  /\ chosenFamily = "EZ2DJ"
  /\ editing => patchesFile = Missing

LauncherNext ==
  /\ UNCHANGED editing
  /\ \/ editing /\ EditorNext /\ UNCHANGED vars
     \/ ~editing /\ Next /\ UNCHANGED editorVars

Watching == ~editing /\ WatchLoop /\ UNCHANGED <<editing, editorVars>>

LauncherSpec == LauncherInit /\ [][LauncherNext]_LauncherVars /\ WF_LauncherVars(Watching)

LauncherTypeOK == TypeOK /\ EditorTypeOK
=============================================================================
