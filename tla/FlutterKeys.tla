---------------------------- MODULE FlutterKeys ----------------------------
(***************************************************************************)
(* The keys to Flutterwave's API: the rows an admin makes, edits and        *)
(* deletes (flutter_key.service.ts) and the job that renews their access    *)
(* tokens (updateFlutterWaveKey in backgroundjobs.service.ts).  The job     *)
(* fires every minute, takes one active row that was not written for more   *)
(* than Stale minutes, and asks Flutterwave for a token with the            *)
(* credentials it has read; the row may be edited or deleted before the     *)
(* answer is written, and the next run does not wait for it.                *)
(***************************************************************************)
EXTENDS Integers

CONSTANTS
    Key,       \* ids of rows
    Cred,      \* credentials: client_id and client_secret
    Known,     \* those Flutterwave knows
    Sent,      \* the tokens an admin may send with a row, or none
    Pass,      \* runs of the job that may be under way at a time
    Stale,     \* minutes after which a row's token is renewed
    MaxEdits,  \* bound: edits by admins
    NoToken,   \* access_token is null
    NoKey,     \* a row that was not made yet
    Deleted,   \* a row that was made and deleted: ids are not given again
    Idle

\* Minutes since updatedAt, as far as the job tells them apart.
Age == 0 .. Stale + 1

\* Of a token, what it was issued for matters.  `edited` is history, not stored: an
\* admin has written other credentials or another token into the row since the
\* token in it was asked for.
Row == [isActive : BOOLEAN, cred : Cred, token : Cred \cup {NoToken}, age : Age,
        edited : BOOLEAN]

\* A run that has read a row; `edited` is history again: since it has, an admin has
\* written other credentials into the row.
Run == [key : Key, cred : Cred, edited : BOOLEAN]

ASSUME FlutterKeysAssumption ==
    /\ Known \subseteq Cred
    /\ Sent \subseteq Cred \cup {NoToken}
    /\ Stale \in Nat
    /\ MaxEdits \in Nat
    /\ NoKey # Deleted /\ {NoKey, Deleted} \cap Row = {}
    /\ Idle \notin Run

VARIABLES
    keys,     \* rows of FlutterWaveKey
    passes,   \* what each run of the job has read
    due,      \* that the job is still to fire in this minute
    edits     \* how often an admin has edited a row, up to MaxEdits

vars == <<keys, passes, due, edits>>

TypeOK ==
    /\ keys \in [Key -> Row \cup {NoKey, Deleted}]
    /\ passes \in [Pass -> Run \cup {Idle}]
    /\ due \in BOOLEAN
    /\ edits \in 0 .. MaxEdits

Init ==
    /\ keys = [k \in Key |-> NoKey]
    /\ passes = [p \in Pass |-> Idle]
    /\ due = FALSE
    /\ edits = 0

HasKey(k) == keys[k] \notin {NoKey, Deleted}

Active(k) == HasKey(k) /\ keys[k].isActive

-----------------------------------------------------------------------------
(* The job *)

\* Mutant: the age of the row is not looked at.
DueForRenewalAtAnyAge(k) == Active(k)

\* Mutant: only a row that has no token gets one.
DueForRenewalWithoutToken(k) ==
    Active(k) /\ keys[k].age > Stale /\ keys[k].token = NoToken

\* What findFirst may return.
DueForRenewal(k) == Active(k) /\ keys[k].age > Stale

\* A minute passes; the job fires in each.
Tick ==
    /\ ~due
    /\ due' = TRUE
    /\ keys' = [k \in Key |->
                  IF HasKey(k) /\ keys[k].age \in 0 .. Stale
                  THEN [keys[k] EXCEPT !.age = @ + 1]
                  ELSE keys[k]]
    /\ UNCHANGED <<passes, edits>>

\* The job asks Flutterwave for a token with the credentials it has read ...
StartPass(p) ==
    /\ due
    /\ passes[p] = Idle
    /\ due' = FALSE
    /\ \E k \in Key :
          /\ DueForRenewal(k)
          /\ passes' = [passes EXCEPT ![p] =
                          [key |-> k, cred |-> keys[k].cred, edited |-> FALSE]]
    /\ UNCHANGED <<keys, edits>>

\* ... or finds no row.
PassNothingDue ==
    /\ due
    /\ \A k \in Key : ~DueForRenewal(k)
    /\ due' = FALSE
    /\ UNCHANGED <<keys, passes, edits>>

\* Flutterwave refuses credentials it does not know; the job logs the error.
Refuse(p) ==
    /\ passes[p] # Idle
    /\ passes[p].cred \notin Known
    /\ passes' = [passes EXCEPT ![p] = Idle]
    /\ UNCHANGED <<keys, due, edits>>

\* Flutterwave answers the run with a token of the credentials it was asked with.
Answered(p) == passes[p] # Idle /\ passes[p].cred \in Known

\* Mutant: the token goes to an active row, not to the one that was asked for.
WriteTokenToActive(p) ==
    /\ Answered(p)
    /\ \E k \in Key :
          /\ Active(k)
          /\ keys' = [keys EXCEPT ![k].token = passes[p].cred, ![k].age = 0,
                                  ![k].edited = passes[p].edited]
    /\ passes' = [passes EXCEPT ![p] = Idle]
    /\ UNCHANGED <<due, edits>>

\* Mutant: a deleted row is written anew.
UpsertToken(p) ==
    /\ Answered(p)
    /\ keys' = [keys EXCEPT ![passes[p].key] =
                  IF HasKey(passes[p].key)
                  THEN [@ EXCEPT !.token = passes[p].cred, !.age = 0]
                  ELSE [token |-> passes[p].cred, age |-> 0]]
    /\ passes' = [passes EXCEPT ![p] = Idle]
    /\ UNCHANGED <<due, edits>>

\* The token is written to the row that was read, whatever credentials and token it
\* holds by now; Prisma sets updatedAt.
WriteToken(p) ==
    LET k == passes[p].key IN
    /\ Answered(p)
    /\ HasKey(k)
    /\ keys' = [keys EXCEPT ![k].token = passes[p].cred, ![k].age = 0,
                            ![k].edited = passes[p].edited]
    /\ passes' = [passes EXCEPT ![p] = Idle]
    /\ UNCHANGED <<due, edits>>

\* The row was deleted meanwhile: the update throws.
WriteFails(p) ==
    /\ Answered(p)
    /\ ~HasKey(passes[p].key)
    /\ passes' = [passes EXCEPT ![p] = Idle]
    /\ UNCHANGED <<keys, due, edits>>

\* The request or a query fails: the catch ends the run.
LosePass(p) ==
    /\ passes[p] # Idle
    /\ passes' = [passes EXCEPT ![p] = Idle]
    /\ UNCHANGED <<keys, due, edits>>

\* The process restarts: no run survives, and the minute's firing is missed.
Restart ==
    /\ passes' = [p \in Pass |-> Idle]
    /\ due' = FALSE
    /\ UNCHANGED <<keys, edits>>

-----------------------------------------------------------------------------
(* The admin *)

\* createFlutterKey and updateFlutterKey hand what the request brings to Prisma: the
\* DTO names the key only, but the other columns, access_token among them, are not
\* stripped (main.ts:44).  (The dates are taken to be left to Prisma.)
CreateKey(k) ==
    /\ keys[k] = NoKey
    /\ \E active \in BOOLEAN, cred \in Cred, token \in Sent :
          keys' = [keys EXCEPT ![k] =
                     [isActive |-> active, cred |-> cred, token |-> token,
                      age |-> 0, edited |-> TRUE]]
    /\ UNCHANGED <<passes, due, edits>>

\* Whatever is changed, updatedAt is now: an old token counts as new.
UpdateKey(k) ==
    /\ HasKey(k)
    /\ edits < MaxEdits
    /\ edits' = edits + 1
    /\ \E active \in BOOLEAN, cred \in Cred, token \in Sent :
          LET row == keys[k]
              others == row.cred # cred
          IN /\ keys' = [keys EXCEPT ![k] =
                           [isActive |-> active, cred |-> cred, token |-> token,
                            age |-> 0,
                            edited |-> row.edited \/ others \/ row.token # token]]
             /\ passes' = [p \in Pass |->
                             IF passes[p] # Idle /\ passes[p].key = k
                             THEN [passes[p] EXCEPT !.edited = @ \/ others]
                             ELSE passes[p]]
    /\ UNCHANGED due

DeleteKey(k) ==
    /\ HasKey(k)
    /\ keys' = [keys EXCEPT ![k] = Deleted]
    /\ UNCHANGED <<passes, due, edits>>

-----------------------------------------------------------------------------

PassStep(p) == StartPass(p) \/ Refuse(p) \/ WriteToken(p) \/ WriteFails(p)

AdminStep(k) == CreateKey(k) \/ UpdateKey(k) \/ DeleteKey(k)

Next ==
    \/ Tick
    \/ PassNothingDue
    \/ Restart
    \/ \E p \in Pass : PassStep(p) \/ LosePass(p)
    \/ \E k \in Key : AdminStep(k)

Spec == Init /\ [][Next]_vars

\* Time passes, the cron fires, and a request to Flutterwave ends.
FairSpec ==
    /\ Spec
    /\ WF_vars(Tick)
    /\ WF_vars(PassNothingDue \/ \E p \in Pass : StartPass(p))
    /\ \A p \in Pass : WF_vars(Refuse(p) \/ WriteToken(p) \/ WriteFails(p))

-----------------------------------------------------------------------------
(* Properties *)

HasTokenOfItsOwn(k) == HasKey(k) /\ keys[k].token = keys[k].cred

\* Runs overlap on a row and with edits of it: a run answered late overwrites what a
\* later one wrote, or puts the token of old credentials beside new ones.  Only an
\* edit since the run read the row leaves a token beside credentials it was not
\* issued for; runs alone never do, on one row or on several
\* (backgroundjobs.service.ts:96).
TokenIsItsOwn ==
    \A k \in Key : HasKey(k) /\ ~keys[k].edited => HasTokenOfItsOwn(k)

\* What may keep a key from being renewed: runs that are lost, edits of the row (a
\* restart in a minute in which there is nothing to do is none) ...
Disturbs(k) ==
    \/ Restart /\ ~PassNothingDue
    \/ \E p \in Pass : LosePass(p)
    \/ AdminStep(k)

\* ... and other active rows whose credentials Flutterwave refuses: they are never
\* written, so findFirst may return one of them every minute.
OnlyWorkingKeys(k) ==
    /\ Active(k)
    /\ \A l \in Key : Active(l) => keys[l].cred \in Known

RenewToken(k) ==
    \E p \in Pass : passes[p] # Idle /\ passes[p].key = k /\ WriteToken(p)

LeftAlone(k) == <>[]OnlyWorkingKeys(k) /\ <>[][~Disturbs(k)]_vars

\* An active key is renewed again and again, although every run renews one row only,
\* findFirst has no order, runs overlap, and two of them may renew the same row
\* (backgroundjobs.service.ts:63).  With more than Stale + 1 rows it may not be.
ActiveKeysStayRenewed ==
    \A k \in Key : LeftAlone(k) => []<><<RenewToken(k)>>_vars

\* Whatever token an admin has written, and however late the runs are answered that
\* read the row before the last edit, an active key ends up with a token of the
\* credentials it has, and keeps one (backgroundjobs.service.ts:80, 96).
TokensCatchUp ==
    \A k \in Key : LeftAlone(k) => <>[]HasTokenOfItsOwn(k)
=============================================================================
