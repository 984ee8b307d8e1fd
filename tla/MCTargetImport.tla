---------------------------- MODULE MCTargetImport ----------------------------
(* Files of up to five rows: enough for two targets to be joined in front  *)
(* of a third and for a later row to look the third one up.  The readers   *)
(* that go by a key look at one earlier target only: their files are       *)
(* shorter.                                                                *)
EXTENDS TargetImport, TLC

CONSTANTS u1, u2, s1,
          ShortFile   \* bound on the files of the readers that go by a key

Alike == Permutations(Names)

\* With any username: no id, a user id, a sec_uid, or both, and then another
\* user id with the same sec_uid; and an empty row.
Identities == {<<Blank, Blank>>, <<u1, Blank>>, <<Blank, s1>>, <<u1, s1>>, <<u2, s1>>}
MCRows == [name: {Blank}, uid: {Blank}, sec: {Blank}] \cup
          {[name |-> n, uid |-> x[1], sec |-> x[2]] : n \in Names, x \in Identities}

Short == reader = "priority" \/ Len(file) <= ShortFile

===============================================================================
