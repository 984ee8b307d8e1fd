----------------------------- MODULE TargetImport -----------------------------
(***************************************************************************)
(* One file of people to visit becomes a target pool.                      *)
(*                                                                         *)
(* A reader goes through the rows of the file and joins those of one       *)
(* person (importer.py, priority_importer.py); import_pool stores the      *)
(* result under the checksum of the file (acquisition_db.py).  The reader  *)
(* of priority files joins rows that share any of three names, directly or *)
(* through other rows, and so may find out late that two targets are one:  *)
(* it keeps a table from names to positions in a list it takes elements    *)
(* out of.  The readers of exports go by the identity key of each row, the *)
(* reader of follower workbooks by the user id.                            *)
(*                                                                         *)
(* Names are stripped of "@" and lowered before anything else, and the     *)
(* "dom-" ids a collector makes up read as no id: rows here are what is    *)
(* left.  A name that is no handle reads as Blank.                         *)
(***************************************************************************)
EXTENDS Integers, Sequences, FiniteSetsExt

CONSTANTS
  Readers,            \* the kinds of files considered
  Names, Uids, Secs,  \* usernames, user ids and sec_uids in the files
  Blank,              \* an empty cell
  Rows,               \* the rows a file may have
  MaxRows             \* bound on the length of a file

ASSUME ImportAssumption ==
  /\ Readers \subseteq {"priority", "export", "comments", "workbook"}
  /\ Blank \notin Names \cup Uids \cup Secs
  /\ Rows \subseteq [name: Names \cup {Blank}, uid: Uids \cup {Blank}, sec: Secs \cup {Blank}]
  /\ MaxRows \in Nat

VARIABLES
  reader,      \* which of the readers the file calls for
  file,        \* the rows read so far
  targets,     \* the list of targets
  aliases,     \* the reader's table: where in the list a name belongs
  duplicates,  \* skipped_duplicates
  invalid,     \* skipped_invalid
  outcome,     \* of the import
  sourceRows   \* target_pools.source_rows

importVars == <<reader, file, targets, aliases, duplicates, invalid, outcome, sourceRows>>

ImportInit ==
  /\ reader \in Readers
  /\ file = <<>> /\ targets = <<>> /\ aliases = <<>>
  /\ duplicates = 0 /\ invalid = 0 /\ sourceRows = 0
  /\ outcome = "reading"

-----------------------------------------------------------------------------
(* Identities. *)

\* target_identity_key
KeyOf(t) ==
  IF t.sec # Blank THEN <<"sec", t.sec>>
  ELSE IF t.uid # Blank THEN <<"uid", t.uid>>
  ELSE <<"handle", t.name>>

\* _target_aliases
Aliases(t) ==
  {<<"handle", t.name>>, <<"sec", t.sec>>, <<"uid", t.uid>>}
    \ {<<"sec", Blank>>, <<"uid", Blank>>}

Differ(x, y) == x # Blank /\ y # Blank /\ x # y

\* What _combine_targets refuses: targets to be joined are two people.
Conflict(S) == \E t, u \in S : Differ(t.sec, u.sec) \/ Differ(t.uid, u.uid)

Known(values) ==
  IF values \subseteq {Blank} THEN Blank ELSE CHOOSE v \in values : v # Blank

\* MUTANT: the ids that the row adds are lost.
CombinedOfOld(S, t) ==
  [name |-> t.name, uid |-> Known({u.uid : u \in S}), sec |-> Known({u.sec : u \in S}),
   lines |-> UNION {u.lines : u \in S \cup {t}}]

\* _combine_targets, of the targets S and then the row t.
Combined(S, t) ==
  LET all == S \cup {t}
  IN [name |-> t.name, uid |-> Known({u.uid : u \in all}),
      sec |-> Known({u.sec : u \in all}), lines |-> UNION {u.lines : u \in all}]

\* The row just read as a target of its own.
Fresh(row) ==
  [name |-> row.name, uid |-> row.uid, sec |-> row.sec, lines |-> {Len(file) + 1}]

-----------------------------------------------------------------------------
(* The reader of priority files. *)

\* The targets that a row is found to belong to.
Matches(t) == {aliases[k] : k \in Aliases(t) \cap DOMAIN aliases}

\* Where a target is found once those of M have been joined to their first.
Renumber(i, M) ==
  IF i \in M THEN Min(M) ELSE i - Cardinality({j \in M \ {Min(M)} : j < i})

\* The list after that, with `whole` for the first of M and without the others.
Joined(M, whole) ==
  LET rest == DOMAIN targets \ (M \ {Min(M)})
      At(p) == CHOOSE i \in rest : Renumber(i, M) = p
  IN [p \in 1..Cardinality(rest) |-> IF At(p) = Min(M) THEN whole ELSE targets[At(p)]]

\* The table once the names K belong to position i.
Named(K, i, table) ==
  [k \in K \cup DOMAIN table |-> IF k \in K THEN i ELSE table[k]]

\* MUTANT: a row that joins two targets counts as one duplicate.
RepeatsOnce(M) == IF M = {} THEN 0 ELSE 1

\* By how much a row that matches M adds to the duplicates: the row itself and
\* all but one of the targets it joins.
Repeats(M) == Cardinality(M)

\* _merge_target
Merge(t) ==
  LET M == Matches(t)
      whole == Combined({targets[i] : i \in M}, t)
  IN \/ /\ M = {}
        /\ targets' = Append(targets, t)
        /\ aliases' = Named(Aliases(t), Len(targets) + 1, aliases)
        /\ UNCHANGED <<duplicates, outcome>>
     \/ /\ M # {} /\ Conflict({targets[i] : i \in M} \cup {t})
        /\ outcome' = "refused"
        /\ UNCHANGED <<targets, aliases, duplicates>>
     \/ /\ M # {} /\ ~Conflict({targets[i] : i \in M} \cup {t})
        /\ targets' = Joined(M, whole)
        /\ aliases' = Named(Aliases(whole), Min(M),
                            [k \in DOMAIN aliases |-> Renumber(aliases[k], M)])
        /\ duplicates' = duplicates + Repeats(M)
        /\ UNCHANGED outcome

\* _read_jsonl and the reader of priority workbooks.
ReadPriority(row) ==
  /\ reader = "priority"
  /\ IF row.name = Blank
     THEN /\ invalid' = invalid + 1
          /\ UNCHANGED <<targets, aliases, duplicates, outcome>>
     ELSE Merge(Fresh(row)) /\ UNCHANGED invalid

-----------------------------------------------------------------------------
(* The other readers: a row whose key is known is a duplicate. *)

\* What the row adds to the target it repeats: its line, or nothing.
Repeat(k, t) ==
  /\ targets' = [targets EXCEPT ![aliases[k]].lines = @ \cup t.lines]
  /\ duplicates' = duplicates + 1
  /\ UNCHANGED aliases

ByKey(k, t) ==
  IF k \in DOMAIN aliases THEN Repeat(k, t)
  ELSE /\ targets' = Append(targets, t)
       /\ aliases' = Named({k}, Len(targets) + 1, aliases)
       /\ UNCHANGED duplicates

Incomplete(row) == row.uid = Blank \/ row.name = Blank

\* _read_deduplicated_user_export
ReadExport(row) ==
  /\ reader = "export"
  /\ IF Incomplete(row)
     THEN invalid' = invalid + 1 /\ UNCHANGED <<targets, aliases, duplicates>>
     ELSE ByKey(KeyOf(row), Fresh(row)) /\ UNCHANGED invalid
  /\ UNCHANGED outcome

\* _read_comment_export: an incomplete row refuses the file.
ReadComments(row) ==
  /\ reader = "comments"
  /\ IF Incomplete(row)
     THEN outcome' = "refused" /\ UNCHANGED <<targets, aliases, duplicates>>
     ELSE ByKey(KeyOf(row), Fresh(row)) /\ UNCHANGED outcome
  /\ UNCHANGED invalid

\* _read_follower_workbook: by the user id, and no lines are kept.
ReadWorkbook(row) ==
  /\ reader = "workbook"
  /\ IF Incomplete(row)
     THEN invalid' = invalid + 1 /\ UNCHANGED <<targets, aliases, duplicates>>
     ELSE /\ ByKey(<<"uid", row.uid>>, [Fresh(row) EXCEPT !.lines = {}])
          /\ UNCHANGED invalid
  /\ UNCHANGED outcome

ReadRow(row) ==
  /\ outcome = "reading"
  /\ Len(file) < MaxRows
  /\ file' = Append(file, row)
  /\ ReadPriority(row) \/ ReadExport(row) \/ ReadComments(row) \/ ReadWorkbook(row)
  /\ UNCHANGED <<reader, sourceRows>>

-----------------------------------------------------------------------------
(* The pool. *)

\* A target without lines counts as one row.
RowsBehind(t) == IF t.lines = {} THEN 1 ELSE Cardinality(t.lines)

\* import_pool at the end of the file: a pool has targets, and one for a key.
\* (A second import of the file finds the same content and changes nothing.)
ImportPool ==
  /\ outcome = "reading"
  /\ LET alike == \E i, j \in DOMAIN targets : i # j /\ KeyOf(targets[i]) = KeyOf(targets[j])
     IN IF targets = <<>> \/ alike
        THEN outcome' = "rejected" /\ UNCHANGED sourceRows
        ELSE /\ outcome' = "stored"
             /\ sourceRows' = MapThenSumSet(LAMBDA i : RowsBehind(targets[i]), DOMAIN targets)
  /\ UNCHANGED <<reader, file, targets, aliases, duplicates, invalid>>

ImportNext == (\E row \in Rows : ReadRow(row)) \/ ImportPool

ImportSpec == ImportInit /\ [][ImportNext]_importVars

-----------------------------------------------------------------------------
(* Properties. *)

\* The rows the reader takes for targets.
Valid == {i \in DOMAIN file : IF reader = "priority" THEN file[i].name # Blank
                              ELSE ~Incomplete(file[i])}

\* What joins two rows, one to the other.
Joins(r, s) == IF reader = "priority" THEN Aliases(r) \cap Aliases(s) # {}
               ELSE KeyOf(r) = KeyOf(s)

Kin == [i \in Valid |-> {j \in Valid : Joins(file[i], file[j])}]

\* The parts into which kin divides its domain: the smallest sets it never leaves.
Closed(S, kin) == \A i \in S : kin[i] \subseteq S
Parts(kin) ==
  LET closed == {S \in SUBSET DOMAIN kin : S # {} /\ Closed(S, kin)}
  IN {S \in closed : \A T \in closed : T \subseteq S => T = S}

\* The reference: rows belong to one person if kin leads from one to the other,
\* directly or over other rows of the file.
People == Parts(Kin)

\* The targets are exactly the people of the file, and every row is traced to
\* one, in whatever order the rows come and however late it turns out that two
\* targets are one; a priority file is refused exactly when rows that belong
\* together name two sec_uids or two user ids, and not for what merging made
\* of them (_merge_target, _combine_targets).
OneTargetPerPerson ==
  LET people == People IN
  /\ reader # "workbook" /\ outcome = "stored" =>
       /\ {targets[i].lines : i \in DOMAIN targets} = people
       /\ Len(targets) = Cardinality(people)
  /\ reader = "priority" /\ outcome # "reading" =>
       (outcome = "refused" <=> \E S \in people : Conflict({file[i] : i \in S}))

\* Every row is a target, a duplicate or invalid, also when one row turns two
\* targets into one; and the pool counts the valid rows where lines are kept, the
\* people where they are not.
RowsAccounted ==
  outcome # "refused" =>
    /\ Len(file) = Len(targets) + duplicates + invalid
    /\ outcome = "stored" =>
         sourceRows = IF reader = "workbook" THEN Len(targets) ELSE Len(file) - invalid

-----------------------------------------------------------------------------
(* What the properties rest on: the inductive invariant.                   *)

ImportTypeOK ==
  /\ reader \in Readers
  /\ file \in Seq(Rows)
  /\ targets \in Seq([name: Names \cup {Blank}, uid: Uids \cup {Blank},
                      sec: Secs \cup {Blank}, lines: SUBSET Nat])
  /\ aliases \in [DOMAIN aliases -> DOMAIN targets]
  /\ {duplicates, invalid, sourceRows} \subseteq Nat
  /\ outcome \in {"reading", "refused", "rejected", "stored"}

\* The names under which a reader looks a row up.
Tokens(row) ==
  CASE reader = "priority" -> Aliases(row)
    [] reader = "workbook" -> {<<"uid", row.uid>>}
    [] OTHER -> {KeyOf(row)}

Tracing == reader # "workbook" /\ outcome # "refused"

\* One target for a person at any time, and nobody is left out.
Traced ==
  Tracing =>
    /\ {targets[i].lines : i \in DOMAIN targets} = People
    /\ UNION People = Valid
    /\ \A i, j \in DOMAIN targets : targets[i].lines = targets[j].lines => i = j

\* The table leads from the names of a row to its target, and only from those.
NamesLead ==
  Tracing =>
    /\ \A i \in DOMAIN targets : \A n \in targets[i].lines : \A k \in Tokens(file[n]) :
          k \in DOMAIN aliases /\ aliases[k] = i
    /\ \A k \in DOMAIN aliases :
          \E n \in targets[aliases[k]].lines : k \in Tokens(file[n])

\* A target has the ids of its rows, which agree.
IdsAgree ==
  reader = "priority" /\ outcome # "refused" =>
    \A t \in {targets[i] : i \in DOMAIN targets} :
      /\ t.sec # Blank => \E n \in t.lines : file[n].sec = t.sec
      /\ t.uid # Blank => \E n \in t.lines : file[n].uid = t.uid
      /\ \A n \in t.lines : file[n].sec \in {Blank, t.sec} /\ file[n].uid \in {Blank, t.uid}

RefusedForCause ==
  reader = "priority" /\ outcome = "refused" =>
    \E S \in People : Conflict({file[i] : i \in S})

Counted ==
  outcome # "refused" =>
    /\ Len(file) = Len(targets) + duplicates + invalid
    /\ Len(file) = Cardinality(Valid) + invalid
    /\ outcome = "stored" =>
         sourceRows = IF reader = "workbook" THEN Len(targets) ELSE Cardinality(Valid)

\* The reader of workbooks keeps no lines.
Unlined == reader = "workbook" => \A i \in DOMAIN targets : targets[i].lines = {}

ImportIInv ==
  /\ ImportTypeOK /\ Traced /\ NamesLead /\ IdsAgree
  /\ RefusedForCause /\ Counted /\ Unlined

=============================================================================
