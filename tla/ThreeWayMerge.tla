--------------------------- MODULE ThreeWayMerge ---------------------------
(***************************************************************************)
(* What a replayed commit does to one file (pkg/gitstore/rebase.go): the   *)
(* change from base to ours, set on theirs, the file as the tip has it.    *)
(* Base is the file in the commit's parent, ours the file in the commit.   *)
(*                                                                         *)
(* A file of the layout is its fields and what it keeps by key: notes by   *)
(* id, unknown front-matter keys by name.                                  *)
(***************************************************************************)

CONSTANT Absent   \* no such file, or no such key

(* A bug: the field goes to the tip when both sides set it.                *)
MergeValueTheirs(base, ours, theirs) ==
  IF theirs = base THEN ours ELSE theirs

(* mergeStruct: ours where it differs from base, else theirs.              *)
MergeValue(base, ours, theirs) == IF ours # base THEN ours ELSE theirs

MergeFields(base, ours, theirs) ==
  [f \in DOMAIN theirs |-> MergeValue(base[f], ours[f], theirs[f])]

(* A bug: a key the tip dropped comes back when ours changed it.           *)
MergeKeyRevived(base, ours, theirs) ==
  IF base = Absent
  THEN IF theirs # Absent THEN theirs ELSE ours
  ELSE IF ours # base THEN ours ELSE theirs

(* mergeNotes, mergeExtra: keys of ours that base has not join, unless the *)
(* tip has the key; keys ours dropped leave, keys the tip dropped stay     *)
(* away; of the rest a changed one takes ours.                             *)
MergeKey(base, ours, theirs) ==
  IF base = Absent
  THEN IF theirs # Absent THEN theirs ELSE ours
  ELSE IF Absent \in {ours, theirs} THEN Absent
  ELSE IF ours # base THEN ours ELSE theirs

MergeKeyed(base, ours, theirs) ==
  [k \in DOMAIN theirs |-> MergeKey(base[k], ours[k], theirs[k])]

(* mergeTyped, of a file with a decoder.                                   *)
MergeTyped(base, ours, theirs) ==
  [fields |-> MergeFields(base.fields, ours.fields, theirs.fields),
   keyed |-> MergeKeyed(base.keyed, ours.keyed, theirs.keyed)]

(* A bug: an edit of a file the tip deleted brings it back.                *)
MergeFileRevives(whole, base, ours, theirs) ==
  IF ours = Absent THEN Absent
  ELSE IF theirs = Absent THEN ours
  ELSE IF base = Absent THEN theirs
  ELSE IF whole THEN ours
  ELSE MergeTyped(base, ours, theirs)

(* mergeFile and mergeByKind: a delete deletes, a create is made unless    *)
(* the path is there, an edit of a deleted file is moot; a file of a kind  *)
(* without a decoder in mergeByKind is replaced whole.                     *)
MergeFile(whole, base, ours, theirs) ==
  IF ours = Absent THEN Absent
  ELSE IF theirs = Absent THEN IF base = Absent THEN ours ELSE Absent
  ELSE IF base = Absent THEN theirs
  ELSE IF whole THEN ours
  ELSE MergeTyped(base, ours, theirs)

(* replayWrites: every path the commit changed, merged onto the tip.       *)
MergeTree(whole, base, ours, theirs) ==
  [p \in DOMAIN theirs |->
     IF ours[p] = base[p] THEN theirs[p]
     ELSE MergeFile(p \in whole, base[p], ours[p], theirs[p])]
=============================================================================
