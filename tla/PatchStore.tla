----------------------------- MODULE PatchStore -----------------------------
(***************************************************************************)
(* Patch definitions, their saved state and how they change the image of a *)
(* game (src/libs/patches/patch_store.cpp). Only operators: Settings keeps *)
(* the launcher's store and files, StartUp the image of a game's process.  *)
(*                                                                         *)
(* A patch is [id, type, apply, bad, groups, offset, default, children]:   *)
(* bad when a number in it does not parse; a group is [rva, sites], which  *)
(* writes at its sites, those that still hold the code its scan asks for   *)
(* unless it is RVA-based. Bytes are abstracted to who wrote them.         *)
(***************************************************************************)
EXTENDS Naturals, Sequences, FiniteSets, SequencesExt

CONSTANTS
  Sites,          \* the places in a game's image that patches touch
  Defined         \* every patch that some definition, or a patch in it, holds

Timing == {"super_early", "early", "normal"}

\* Whatever is nested in a patch is a patch, and nesting ends.
ASSUME PatchStoreAssumption ==
  /\ Sites # {} /\ IsFiniteSet(Defined)
  /\ \A p \in Defined :
       /\ p.id \in STRING /\ p.apply \in Timing /\ p.children \in Seq(Defined)
       /\ p.type = "value" => p.offset \in Sites
       /\ p.groups \in Seq([rva : BOOLEAN, sites : SUBSET Sites])
  /\ \E depth \in [Defined -> 0..Cardinality(Defined)] :
       \A p \in Defined : \A i \in DOMAIN p.children : depth[p.children[i]] < depth[p]

PatchIds == {p.id : p \in Defined}

Missing == [kind |-> "missing"]
Torn == [kind |-> "torn"]                      \* truncated, not yet rewritten
Whole(content) == [kind |-> "whole", content |-> content]

CodeByte == [by |-> "game", value |-> 0]
PackedByte == [by |-> "packer", value |-> 0]   \* not decrypted yet

-----------------------------------------------------------------------------
(* Definitions *)

\* A patch with everything nested in it.
Family[p \in Defined] == {p} \cup UNION {Family[p.children[i]] : i \in DOMAIN p.children}

Tree(list) == UNION {Family[list[i]] : i \in DOMAIN list}

IndexOf(list, p) == SelectInSeq(list, LAMBDA q : q.id = p.id)

\* Parsing stops at the first patch that does not parse.
Parsed(list) ==
  LET bad == SelectInSeq(list, LAMBDA p : \E q \in Family[p] : q.bad)
  IN  IF bad = 0 THEN list ELSE SubSeq(list, 1, bad - 1)

AddShared(list, p) == IF IndexOf(list, p) = 0 THEN Append(list, p) ELSE list

AddUser(list, p) ==
  LET i == IndexOf(list, p)
  IN  IF i = 0 THEN Append(list, p) ELSE [list EXCEPT ![i] = p]

\* The entries a parser that throws gets through, the broken one included.
Reached(entries, Broken(_)) ==
  LET end == SelectInSeq(entries, Broken) IN IF end = 0 THEN entries ELSE SubSeq(entries, 1, end)

BrokenGame(entry) == Parsed(entry.patches) # entry.patches
BrokenShared(entry) == Parsed(<<entry.patch>>) = << >>

\* patches.json holds games and shared patches, in the order of their keys. A
\* patch that does not parse ends the load, with what it has by then.
LoadBundled(content, none) ==
  LET Own(store, entry) == [store EXCEPT ![entry.game] = Parsed(entry.patches)]
      Shared(store, entry) ==
        IF BrokenShared(entry) THEN store
        ELSE [g \in DOMAIN store |-> IF g \in entry.games
                                     THEN AddShared(store[g], entry.patch)
                                     ELSE store[g]]
      own == FoldLeft(Own, none, Reached(content.games, BrokenGame))
  IN  IF \E i \in DOMAIN content.games : BrokenGame(content.games[i])
      THEN own
      ELSE FoldLeft(Shared, own, Reached(content.shared, BrokenShared))

\* user-patches.json: a game whose patches do not parse ends the merge.
LoadUser(store, games) ==
  LET Merge(acc, entry) ==
        IF BrokenGame(entry) THEN acc
        ELSE [acc EXCEPT ![entry.game] = FoldLeft(AddUser, @, entry.patches)]
  IN  FoldLeft(Merge, store, Reached(games, BrokenGame))

\* A patches.json that is missing or torn leaves only the user's.
Load(file, bundled, user, games) ==
  LET none == [g \in games |-> << >>]
  IN  LoadUser(IF file.kind = "whole" THEN LoadBundled(bundled[file.content], none)
                                      ELSE none, user)

-----------------------------------------------------------------------------
(* State: per game and id, whether it is enabled and the option chosen *)

Defaults(p) == [enabled |-> FALSE, value |-> p.default]

\* Mutant: the state of nested patches is not read back.
StateOfTopLevel(list, saved) ==
  [id \in {p.id : p \in Tree(list)} |->
     LET p == CHOOSE q \in Tree(list) : q.id = id
     IN  IF id \in DOMAIN saved /\ p \in {list[i] : i \in DOMAIN list}
         THEN saved[id] ELSE Defaults(p)]

LoadStateHelper(list, saved) ==
  [id \in {p.id : p \in Tree(list)} |->
     IF id \in DOMAIN saved THEN saved[id]
     ELSE Defaults(CHOOSE q \in Tree(list) : q.id = id)]

LoadState(store, saved) ==
  [g \in DOMAIN store |->
     LoadStateHelper(store[g], IF g \in DOMAIN saved THEN saved[g] ELSE << >>)]

SaveState(state, games) == [g \in games |-> state[g]]

\* The launcher saves the patches of the selected game only; "ez2dj_6th"
\* and "rmbr_1st" share a directory and are saved together.
SavedGames(id, games) ==
  games \cap (IF id = "ez2dj_6th" THEN {"ez2dj_6th", "rmbr_1st"} ELSE {id})

-----------------------------------------------------------------------------
(* Application *)

Matches(image, group) ==
  IF group.rva THEN group.sites ELSE {s \in group.sites : image[s] = CodeByte}

Write(image, sites, byte) == [s \in DOMAIN image |-> IF s \in sites THEN byte ELSE image[s]]

\* The first group without a match ends the patch.
ApplyGroups(image, id, groups) ==
  LET done[i \in 0..Len(groups)] ==
        IF i = 0 THEN [image |-> image, failed |-> FALSE]
        ELSE LET last  == done[i - 1]
                 found == Matches(last.image, groups[i])
             IN  IF last.failed \/ found = {}
                 THEN [last EXCEPT !.failed = TRUE]
                 ELSE [last EXCEPT !.image = Write(@, found, [by |-> id, value |-> 0])]
  IN  done[Len(groups)].image

\* scan_group is empty for every value patch: the offset is from the base.
ApplyOne(image, p, state) ==
  IF p.type = "value"
  THEN Write(image, {p.offset}, [by |-> p.id, value |-> state[p.id].value])
  ELSE ApplyGroups(image, p.id, p.groups)

\* applyPatch: a patch, then the children enabled in it with theirs.
ApplyPatch(state) ==
  LET order[p \in Defined] ==
        IF state[p.id].enabled
        THEN <<p>> \o FlattenSeq([i \in DOMAIN p.children |-> order[p.children[i]]])
        ELSE << >>
  IN  order

\* All that a phase applies, in its order.
Phase(list, state, timing) ==
  FlattenSeq([i \in DOMAIN list |->
                IF list[i].apply = timing THEN ApplyPatch(state)[list[i]] ELSE << >>])

ApplyPatches(image, list, state, timing) ==
  LET phase == Phase(list, state, timing)
      after[i \in 0..Len(phase)] ==
        IF i = 0 THEN image ELSE ApplyOne(after[i - 1], phase[i], state)
  IN  after[Len(phase)]

VersionSite == "version"

ApplyVersionPatch(image) ==
  IF image[VersionSite] = CodeByte
  THEN [image EXCEPT ![VersionSite] = [by |-> "2EZConfig", value |-> 0]]
  ELSE image

-----------------------------------------------------------------------------
(* The window's rows, nested ones under an enabled parent, and what a user *)
(* has chosen with them *)

RowsOf(p, state) ==
  LET rows[q \in Defined] ==
        {q} \cup IF state[q.id].enabled
                 THEN UNION {rows[q.children[i]] : i \in DOMAIN q.children}
                 ELSE {}
  IN  rows[p]

Rows(list, state) == UNION {RowsOf(list[i], state) : i \in DOMAIN list}

\* A nested patch is applied with the one it is nested in.
Chosen(list, state) ==
  UNION {{[patch |-> p, value |-> state[p.id].value, timing |-> list[i].apply] :
            p \in {q \in RowsOf(list[i], state) : state[q.id].enabled}} : i \in DOMAIN list}

=============================================================================
