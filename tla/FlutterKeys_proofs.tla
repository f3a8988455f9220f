------------------------- MODULE FlutterKeys_proofs -------------------------
(***************************************************************************)
(* Theorems about FlutterKeys, for any keys and credentials, any number of  *)
(* runs of the job under way and any number of edits.                       *)
(***************************************************************************)
EXTENDS FlutterKeys, TLAPS

-----------------------------------------------------------------------------
(* Rows and runs *)

LEMMA RowAges ==
    ASSUME NEW r \in Row, NEW a \in Age, NEW row, row = [r EXCEPT !.age = a]
    PROVE  row \in Row /\ row.token = r.token /\ row.cred = r.cred /\ row.edited = r.edited
BY DEF Row

LEMMA NewRow ==
    ASSUME NEW active \in BOOLEAN, NEW cred \in Cred, NEW token \in Sent,
           NEW e \in BOOLEAN
    PROVE  [isActive |-> active, cred |-> cred, token |-> token, age |-> 0,
            edited |-> e] \in Row
<1>1. 0 \in Age /\ token \in Cred \cup {NoToken}
  BY FlutterKeysAssumption DEF Age
<1> QED
  BY <1>1 DEF Row

LEMMA KeyIsRow ==
    ASSUME TypeOK, NEW k \in Key
    PROVE  HasKey(k) <=> keys[k] \in Row
BY FlutterKeysAssumption DEF TypeOK, HasKey

LEMMA RunsPass ==
    ASSUME TypeOK, NEW p \in Pass, passes[p] # Idle
    PROVE  passes[p] \in Run /\ passes[p].key \in Key
BY DEF TypeOK, Run

\* The row of k has the token of its credentials, unless it was edited.
OwnToken(k) == HasKey(k) /\ ~keys[k].edited => HasTokenOfItsOwn(k)

\* The row a run has read was made, and unless it was edited since has the credentials
\* the run has read.
KnowsItsRow(p) ==
    passes[p] # Idle =>
        /\ keys[passes[p].key] # NoKey
        /\ HasKey(passes[p].key) /\ ~passes[p].edited =>
              keys[passes[p].key].cred = passes[p].cred

\* What every step keeps: a token comes from a run, and a run from a row.
Own ==
    /\ TypeOK
    /\ \A k \in Key : OwnToken(k)
    /\ \A p \in Pass : KnowsItsRow(p)

\* Runs end, and no row is written.
LEMMA RunsEnd ==
    ASSUME Own, keys' = keys, edits' = edits, due' \in BOOLEAN,
           passes' \in [Pass -> Run \cup {Idle}],
           \A p \in Pass : passes'[p] \in {passes[p], Idle}
    PROVE  Own'
<1>1. TypeOK'
  BY DEF Own, TypeOK
<1>2. ASSUME NEW k \in Key PROVE OwnToken(k)'
  BY DEF Own, OwnToken, HasKey, HasTokenOfItsOwn
<1>3. ASSUME NEW p \in Pass PROVE KnowsItsRow(p)'
  BY DEF Own, KnowsItsRow, HasKey
<1> QED
  BY <1>1, <1>2, <1>3 DEF Own

LEMMA OneRunEnds ==
    ASSUME TypeOK, NEW p \in Pass, passes' = [passes EXCEPT ![p] = Idle]
    PROVE  /\ passes' \in [Pass -> Run \cup {Idle}]
           /\ \A q \in Pass : passes'[q] \in {passes[q], Idle}
           /\ passes'[p] = Idle
BY DEF TypeOK

-----------------------------------------------------------------------------
(* The job *)

LEMMA TickStep ==
    ASSUME Own, Tick
    PROVE  Own'
<1>1. ASSUME NEW k \in Key
      PROVE  \/ keys'[k] = keys[k]
             \/ /\ keys[k] \in Row /\ keys'[k] \in Row
                /\ keys'[k].token = keys[k].token
                /\ keys'[k].cred = keys[k].cred
                /\ keys'[k].edited = keys[k].edited
  <2>1. CASE HasKey(k) /\ keys[k].age \in 0 .. Stale
    <3>1. keys[k] \in Row
      BY <2>1, KeyIsRow DEF Own
    <3>2. keys'[k] = [keys[k] EXCEPT !.age = keys[k].age + 1]
      BY <2>1 DEF Tick
    <3>3. keys[k].age + 1 \in Age
      BY <2>1, FlutterKeysAssumption DEF Age
    <3> QED
      BY <3>1, <3>2, <3>3, RowAges
  <2>2. CASE ~(HasKey(k) /\ keys[k].age \in 0 .. Stale)
    BY <2>2 DEF Tick
  <2> QED
    BY <2>1, <2>2
<1>2. /\ keys' \in [Key -> Row \cup {NoKey, Deleted}]
      /\ due' \in BOOLEAN /\ passes' = passes /\ edits' = edits
  BY <1>1 DEF Tick, Own, TypeOK
<1>3. \A k \in Key : HasKey(k)' <=> HasKey(k)
  BY <1>1, FlutterKeysAssumption DEF HasKey
<1>4. ASSUME NEW k \in Key PROVE OwnToken(k)'
  BY <1>1, <1>3 DEF Own, OwnToken, HasTokenOfItsOwn
<1>5. ASSUME NEW p \in Pass PROVE KnowsItsRow(p)'
  <2>1. SUFFICES ASSUME passes[p] # Idle PROVE KnowsItsRow(p)'
    BY <1>2 DEF KnowsItsRow
  <2>2. passes[p].key \in Key
    BY <2>1, RunsPass DEF Own
  <2>3. keys'[passes[p].key] # NoKey
    BY <1>1, <2>1, <2>2, FlutterKeysAssumption DEF Own, KnowsItsRow
  <2> QED
    BY <1>1, <1>2, <1>3, <2>1, <2>2, <2>3 DEF Own, KnowsItsRow
<1> QED
  BY <1>2, <1>4, <1>5 DEF Own, TypeOK

LEMMA StartStep ==
    ASSUME Own, NEW p \in Pass, StartPass(p)
    PROVE  Own'
<1>1. PICK k \in Key :
         /\ DueForRenewal(k)
         /\ passes' = [passes EXCEPT ![p] =
                         [key |-> k, cred |-> keys[k].cred, edited |-> FALSE]]
  BY DEF StartPass
<1> DEFINE run == [key |-> k, cred |-> keys[k].cred, edited |-> FALSE]
<1>2. HasKey(k) /\ keys[k] \in Row
  BY <1>1, KeyIsRow DEF DueForRenewal, Active, Own
<1>3. run \in Run
  BY <1>2 DEF Row, Run
<1>4. /\ passes' \in [Pass -> Run \cup {Idle}]
      /\ passes'[p] = run
      /\ \A q \in Pass \ {p} : passes'[q] = passes[q]
  BY <1>1, <1>3 DEF Own, TypeOK
<1>5. keys' = keys /\ edits' = edits /\ due' \in BOOLEAN
  BY DEF StartPass
<1>6. KnowsItsRow(p)'
  BY <1>2, <1>4, <1>5 DEF KnowsItsRow, HasKey
<1>7. ASSUME NEW q \in Pass \ {p} PROVE KnowsItsRow(q)'
  BY <1>4, <1>5 DEF Own, KnowsItsRow, HasKey
<1>8. ASSUME NEW l \in Key PROVE OwnToken(l)'
  BY <1>5 DEF Own, OwnToken, HasKey, HasTokenOfItsOwn
<1> QED
  BY <1>4, <1>5, <1>6, <1>7, <1>8 DEF Own, TypeOK

LEMMA WriteStep ==
    ASSUME Own, NEW p \in Pass, WriteToken(p)
    PROVE  Own'
<1>1. PICK k \in Key, cred \in Cred, edited \in BOOLEAN :
         /\ passes[p] # Idle
         /\ k = passes[p].key /\ cred = passes[p].cred /\ edited = passes[p].edited
  BY RunsPass DEF WriteToken, Answered, Own, Run
<1>2. HasKey(k) /\ keys[k] \in Row
  BY <1>1, KeyIsRow DEF WriteToken, Own
<1>3. PICK row \in Row : /\ keys' = [keys EXCEPT ![k] = row]
                         /\ row.token = cred /\ row.cred = keys[k].cred
                         /\ row.edited = edited
  <2> DEFINE new == [keys[k] EXCEPT !.token = cred, !.age = 0, !.edited = edited]
  <2>1. keys' = [keys EXCEPT ![k] = new]
    BY <1>1 DEF WriteToken, Own, TypeOK
  <2>2. /\ new \in Row /\ new.token = cred /\ new.cred = keys[k].cred
        /\ new.edited = edited
    <3>1. 0 \in Age
      BY FlutterKeysAssumption DEF Age
    <3> QED
      BY <1>2, <3>1 DEF Row
  <2> HIDE DEF new
  <2> QED
    BY <2>1, <2>2
<1>4. /\ keys' \in [Key -> Row \cup {NoKey, Deleted}]
      /\ keys'[k] = row
      /\ \A l \in Key \ {k} : keys'[l] = keys[l]
  BY <1>3 DEF Own, TypeOK
<1>5. passes' \in [Pass -> Run \cup {Idle}] /\ \A q \in Pass : passes'[q] \in {passes[q], Idle}
  BY OneRunEnds DEF WriteToken, Own
<1>6. due' = due /\ edits' = edits
  BY DEF WriteToken
<1>7. keys'[k] \notin {NoKey, Deleted}
  BY <1>3, <1>4, FlutterKeysAssumption
<1>8. OwnToken(k)'
  <2>1. ~edited => keys[k].cred = cred
    BY <1>1, <1>2 DEF Own, KnowsItsRow
  <2> QED BY <2>1, <1>3, <1>4, <1>7 DEF OwnToken, HasKey, HasTokenOfItsOwn
<1>9. ASSUME NEW l \in Key \ {k} PROVE OwnToken(l)'
  BY <1>4 DEF Own, OwnToken, HasKey, HasTokenOfItsOwn
<1>10. ASSUME NEW q \in Pass PROVE KnowsItsRow(q)'
  <2>1. SUFFICES ASSUME passes[q] # Idle, passes'[q] = passes[q] PROVE KnowsItsRow(q)'
    BY <1>5 DEF KnowsItsRow
  <2>2. passes[q].key \in Key
    BY <2>1, RunsPass DEF Own
  <2>3. CASE passes[q].key # k
    BY <1>4, <2>1, <2>2, <2>3 DEF Own, KnowsItsRow, HasKey
  <2>4. CASE passes[q].key = k
    <3>1. ~passes[q].edited => keys[k].cred = passes[q].cred
      BY <1>2, <2>1, <2>4 DEF Own, KnowsItsRow
    <3> QED BY <3>1, <1>3, <1>4, <1>7, <2>1, <2>4 DEF KnowsItsRow
  <2> QED
    BY <2>3, <2>4
<1> QED
  BY <1>4, <1>5, <1>6, <1>8, <1>9, <1>10 DEF Own, TypeOK

LEMMA JobStep ==
    ASSUME Own, NEW p \in Pass, PassStep(p) \/ LosePass(p)
    PROVE  Own'
<1>1. CASE Refuse(p) \/ WriteFails(p) \/ LosePass(p)
  <2>1. /\ passes' \in [Pass -> Run \cup {Idle}]
        /\ \A q \in Pass : passes'[q] \in {passes[q], Idle}
    BY <1>1, OneRunEnds DEF Refuse, WriteFails, LosePass, Own
  <2>2. keys' = keys /\ due' \in BOOLEAN /\ edits' = edits
    BY <1>1 DEF Refuse, WriteFails, LosePass, Own, TypeOK
  <2> QED
    BY <2>1, <2>2, RunsEnd
<1> QED
  BY <1>1, StartStep, WriteStep DEF PassStep

LEMMA RestartStep ==
    ASSUME Own, Restart
    PROVE  Own'
<1>1. /\ passes' \in [Pass -> Run \cup {Idle}]
      /\ \A q \in Pass : passes'[q] \in {passes[q], Idle}
  BY DEF Restart
<1> QED
  BY <1>1, RunsEnd DEF Restart

-----------------------------------------------------------------------------
(* The admin *)

LEMMA CreateStep ==
    ASSUME Own, NEW k \in Key, CreateKey(k)
    PROVE  Own'
<1>1. PICK active \in BOOLEAN, cred \in Cred, token \in Sent :
         keys' = [keys EXCEPT ![k] = [isActive |-> active, cred |-> cred, token |-> token,
                                      age |-> 0, edited |-> TRUE]]
  BY DEF CreateKey
<1> DEFINE row == [isActive |-> active, cred |-> cred, token |-> token, age |-> 0,
                   edited |-> TRUE]
<1>2. row \in Row /\ row.edited = TRUE
  BY NewRow
<1>3. keys' = [keys EXCEPT ![k] = row]
  BY <1>1
<1> HIDE DEF row
<1>4. /\ keys' \in [Key -> Row \cup {NoKey, Deleted}]
      /\ keys'[k] = row
      /\ \A l \in Key \ {k} : keys'[l] = keys[l]
  BY <1>2, <1>3 DEF Own, TypeOK
<1>5. passes' = passes /\ due' = due /\ edits' = edits /\ keys[k] = NoKey
  BY DEF CreateKey
<1>6. ASSUME NEW l \in Key PROVE OwnToken(l)'
  <2>1. CASE l = k
    BY <1>2, <1>4, <2>1 DEF OwnToken
  <2>2. CASE l # k
    BY <1>4, <2>2 DEF Own, OwnToken, HasKey, HasTokenOfItsOwn
  <2> QED
    BY <2>1, <2>2
<1>7. ASSUME NEW p \in Pass PROVE KnowsItsRow(p)'
  <2>1. SUFFICES ASSUME passes[p] # Idle PROVE KnowsItsRow(p)'
    BY <1>5 DEF KnowsItsRow
  <2>2. passes[p].key \in Key \ {k}
    BY <1>5, <2>1, RunsPass DEF Own, KnowsItsRow
  <2> QED
    BY <1>4, <1>5, <2>1, <2>2 DEF Own, KnowsItsRow, HasKey
<1> QED
  BY <1>4, <1>5, <1>6, <1>7 DEF Own, TypeOK

LEMMA UpdateStep ==
    ASSUME Own, NEW k \in Key, UpdateKey(k)
    PROVE  Own'
<1>1. PICK active \in BOOLEAN, cred \in Cred, token \in Sent :
         /\ keys' = [keys EXCEPT ![k] =
                [isActive |-> active, cred |-> cred, token |-> token, age |-> 0,
                 edited |-> keys[k].edited \/ keys[k].cred # cred \/ keys[k].token # token]]
         /\ passes' = [p \in Pass |->
                IF passes[p] # Idle /\ passes[p].key = k
                THEN [passes[p] EXCEPT !.edited = @ \/ keys[k].cred # cred]
                ELSE passes[p]]
  BY DEF UpdateKey
<1> DEFINE e == keys[k].edited \/ keys[k].cred # cred \/ keys[k].token # token
           row == [isActive |-> active, cred |-> cred, token |-> token, age |-> 0,
                   edited |-> e]
<1>2. HasKey(k) /\ keys[k] \in Row
  BY KeyIsRow DEF UpdateKey, Own
<1>3. row \in Row /\ row.edited = e /\ row.cred = cred /\ row.token = token
  <2>1. e \in BOOLEAN
    BY <1>2 DEF Row
  <2> HIDE DEF e
  <2> QED BY <2>1, NewRow
<1>4. keys' = [keys EXCEPT ![k] = row]
  BY <1>1
<1> HIDE DEF row
<1>5. /\ keys' \in [Key -> Row \cup {NoKey, Deleted}]
      /\ keys'[k] = row
      /\ \A l \in Key \ {k} : keys'[l] = keys[l]
  BY <1>3, <1>4 DEF Own, TypeOK
<1>6. ASSUME NEW p \in Pass
      PROVE  \/ passes[p] = Idle /\ passes'[p] = Idle
             \/ /\ passes[p] \in Run /\ passes[p].key # k
                /\ passes'[p] = passes[p]
             \/ /\ passes[p] \in Run /\ passes'[p] \in Run
                /\ passes[p].key = k /\ passes'[p].key = k
                /\ passes'[p].cred = passes[p].cred
                /\ passes'[p].edited = (passes[p].edited \/ keys[k].cred # cred)
  <2>1. CASE passes[p] = Idle
    BY <1>1, <2>1
  <2>2. CASE passes[p] # Idle /\ passes[p].key # k
    BY <1>1, <2>2, RunsPass DEF Own
  <2>3. CASE passes[p] # Idle /\ passes[p].key = k
    <3> DEFINE f == passes[p].edited \/ keys[k].cred # cred
    <3>1. passes[p] \in Run
      BY <2>3, RunsPass DEF Own
    <3>2. passes'[p] = [passes[p] EXCEPT !.edited = f]
      BY <1>1, <2>3
    <3>3. f \in BOOLEAN
      BY <3>1 DEF Run
    <3> HIDE DEF f
    <3>4. /\ passes'[p] \in Run /\ passes'[p].key = passes[p].key
          /\ passes'[p].cred = passes[p].cred /\ passes'[p].edited = f
      BY <3>1, <3>2, <3>3 DEF Run
    <3> QED
      BY <2>3, <3>1, <3>4 DEF f
  <2> QED
    BY <2>1, <2>2, <2>3
<1>7. passes' \in [Pass -> Run \cup {Idle}]
  BY <1>1, <1>6, RunsPass DEF Own
<1>8. due' \in BOOLEAN /\ edits' \in 0 .. MaxEdits
  BY FlutterKeysAssumption DEF UpdateKey, Own, TypeOK
<1>9. keys'[k] \notin {NoKey, Deleted}
  BY <1>3, <1>5, FlutterKeysAssumption
<1>10. ASSUME NEW l \in Key PROVE OwnToken(l)'
  <2>1. CASE l = k
    <3>1. ~e => keys[k].token = token /\ keys[k].cred = cred /\ ~keys[k].edited
      OBVIOUS
    <3>2. ~keys[k].edited => keys[k].token = keys[k].cred
      BY <1>2 DEF Own, OwnToken, HasTokenOfItsOwn
    <3> HIDE DEF e
    <3> QED BY <3>1, <3>2, <1>3, <1>5, <1>9, <2>1 DEF OwnToken, HasKey, HasTokenOfItsOwn
  <2>2. CASE l # k
    BY <1>5, <2>2 DEF Own, OwnToken, HasKey, HasTokenOfItsOwn
  <2> QED
    BY <2>1, <2>2
<1>11. ASSUME NEW p \in Pass PROVE KnowsItsRow(p)'
  <2>1. CASE passes'[p] = Idle
    BY <2>1 DEF KnowsItsRow
  <2>2. CASE passes[p] \in Run /\ passes[p].key # k /\ passes'[p] = passes[p]
    <3>1. keys'[passes[p].key] = keys[passes[p].key]
      BY <1>5, <2>2 DEF Run
    <3> QED
      BY <2>2, <3>1 DEF Own, KnowsItsRow, HasKey
  <2>3. CASE /\ passes[p] \in Run /\ passes'[p] \in Run
             /\ passes[p].key = k /\ passes'[p].key = k
             /\ passes'[p].cred = passes[p].cred
             /\ passes'[p].edited = (passes[p].edited \/ keys[k].cred # cred)
    <3>1. passes[p] # Idle
      BY <2>3, FlutterKeysAssumption
    <3>2. ~passes[p].edited => keys[k].cred = passes[p].cred
      BY <1>2, <2>3, <3>1 DEF Own, KnowsItsRow
    <3>3. ~passes'[p].edited => passes'[p].cred = cred
      BY <2>3, <3>2
    <3> QED
      BY <1>3, <1>5, <1>9, <2>3, <3>3 DEF KnowsItsRow
  <2> QED
    BY <1>6, <2>1, <2>2, <2>3
<1> QED
  BY <1>5, <1>7, <1>8, <1>10, <1>11 DEF Own, TypeOK

LEMMA DeleteStep ==
    ASSUME Own, NEW k \in Key, DeleteKey(k)
    PROVE  Own'
<1>1. /\ keys' \in [Key -> Row \cup {NoKey, Deleted}]
      /\ keys'[k] = Deleted
      /\ \A l \in Key \ {k} : keys'[l] = keys[l]
      /\ passes' = passes /\ due' = due /\ edits' = edits
  BY DEF DeleteKey, Own, TypeOK
<1>2. ASSUME NEW l \in Key PROVE OwnToken(l)'
  BY <1>1 DEF Own, OwnToken, HasKey, HasTokenOfItsOwn
<1>3. ASSUME NEW p \in Pass PROVE KnowsItsRow(p)'
  <2>1. SUFFICES ASSUME passes[p] # Idle PROVE KnowsItsRow(p)'
    BY <1>1 DEF KnowsItsRow
  <2>2. passes[p].key \in Key
    BY <2>1, RunsPass DEF Own
  <2>3. CASE passes[p].key = k
    BY <1>1, <2>1, <2>3, FlutterKeysAssumption DEF KnowsItsRow, HasKey
  <2>4. CASE passes[p].key # k
    BY <1>1, <2>1, <2>2, <2>4 DEF Own, KnowsItsRow, HasKey
  <2> QED
    BY <2>3, <2>4
<1> QED
  BY <1>1, <1>2, <1>3 DEF Own, TypeOK

-----------------------------------------------------------------------------
(* Theorems *)

LEMMA NextOwn ==
    ASSUME Own, [Next]_vars
    PROVE  Own'
<1>1. CASE PassNothingDue
  <2>1. /\ passes' \in [Pass -> Run \cup {Idle}]
        /\ \A q \in Pass : passes'[q] \in {passes[q], Idle}
    BY <1>1 DEF PassNothingDue, Own, TypeOK
  <2> QED
    BY <1>1, <2>1, RunsEnd DEF PassNothingDue
<1>2. CASE UNCHANGED vars
  <2>1. /\ passes' \in [Pass -> Run \cup {Idle}]
        /\ \A q \in Pass : passes'[q] \in {passes[q], Idle}
        /\ due' \in BOOLEAN
    BY <1>2 DEF vars, Own, TypeOK
  <2> QED
    BY <1>2, <2>1, RunsEnd DEF vars
<1> QED
  BY <1>1, <1>2, TickStep, RestartStep, JobStep, CreateStep, UpdateStep, DeleteStep
  DEF Next, AdminStep

LEMMA AlwaysOwn == Spec => []Own
<1>1. Init => Own
  <2>1. 0 \in 0 .. MaxEdits
    BY FlutterKeysAssumption
  <2> QED
    BY <2>1 DEF Init, Own, TypeOK, OwnToken, KnowsItsRow, HasKey, HasTokenOfItsOwn
<1> QED
  BY <1>1, NextOwn, PTL DEF Spec

\* Rows and runs keep their columns, through edits and deletions while Flutterwave is
\* asked.
THEOREM TypeCorrect == Spec => []TypeOK
BY AlwaysOwn, PTL DEF Own

\* However many runs overlap, on however many rows, a token that was not issued for the
\* credentials beside it is there by an edit since it was asked for: by induction, with
\* what a run knows of the row it has read.
THEOREM TokensAreOwn == Spec => []TokenIsItsOwn
<1>1. Own => TokenIsItsOwn
  BY DEF Own, OwnToken, TokenIsItsOwn
<1> QED
  BY <1>1, AlwaysOwn, PTL
=============================================================================
