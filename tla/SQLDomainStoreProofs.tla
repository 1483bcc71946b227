-------------------------- MODULE SQLDomainStoreProofs --------------------------
(***************************************************************************)
(* The SQLite and the Postgres store implement the domain registry, and a  *)
(* newer token retires an older one, for any sets of ids, names, tokens    *)
(* and concurrent requests and any clock bound.                            *)
(*                                                                         *)
(* A request holds, between its statements, the id of a row it read before *)
(* and the fact that a token matched: the invariant says that what it holds *)
(* stays true while others run.  The row still is the registration it was  *)
(* (rows are never removed, ids never reused), and the matched token was   *)
(* issued for it.                                                          *)
(***************************************************************************)
EXTENDS SQLDomainStore, TLAPS

\* An id that names no row has no column set.
UnusedIsBlank == \A i \in Ids : domains[i].name = NoName => domains[i] = NoRow

IsRow(i) == i \in Ids /\ domains[i].name # NoName

\* A request under way is about a row that exists.
RequestsOnRows == \A p \in Procs : req[p].at # "idle" => IsRow(req[p].id)

\* A token on file was issued for the row it is filed for.
TokensWereIssued ==
    \A v \in verifications : \E s \in issued :
        s.domain = v.domain /\ s.token = v.token

\* Tokens are issued for rows that exist.
IssuedForRows == \A s \in issued : IsRow(s.domain)

\* A request past the comparison presented a token issued for its row.
MatchedWasIssued ==
    \A p \in Procs : req[p].at \in {"matched", "marked"} =>
        \E s \in issued : s.domain = req[p].id /\ s.token = req[p].token

\* A request past the first update finds its domain verified.
MarkedIsVerified ==
    \A p \in Procs : req[p].at = "marked" =>
        domains[req[p].id].ownership = "verified"

IInv ==
    /\ TypeOK /\ UnusedIsBlank /\ RequestsOnRows
    /\ TokensWereIssued /\ IssuedForRows /\ MatchedWasIssued
    /\ StampedMeansVerified /\ MarkedIsVerified

\* Steps that give one row, or one request, a new value.
RowBecomes(i, e) ==
    /\ domains' \in [Ids -> Rows]
    /\ domains'[i] = e
    /\ \A j \in Ids : j # i => domains'[j] = domains[j]

RequestBecomes(p, e) ==
    /\ req' \in [Procs -> Requests]
    /\ req'[p] = e
    /\ \A q \in Procs : q # p => req'[q] = req[q]

At(p, at) == [at |-> at, id |-> req[p].id, token |-> req[p].token,
              began |-> req[p].began]

LEMMA IdleIsRequest == Idle \in Requests
  BY MaxTimeAssumption DEF Idle, Requests, Times

LEMMA InitIInv == Init => IInv
<1> SUFFICES ASSUME Init PROVE IInv
  OBVIOUS
<1>1. NoRow \in Rows /\ Idle \in Requests /\ 0 \in Times
  BY MaxTimeAssumption DEF NoRow, Rows, Idle, Requests, Times
<1>2. TypeOK
  BY <1>1 DEF Init, TypeOK
<1>3. UnusedIsBlank
  BY DEF Init, UnusedIsBlank
<1>4. RequestsOnRows /\ MatchedWasIssued /\ MarkedIsVerified
  BY DEF Init, RequestsOnRows, MatchedWasIssued, MarkedIsVerified, Idle
<1>5. TokensWereIssued /\ IssuedForRows /\ StampedMeansVerified
  BY DEF Init, TokensWereIssued, IssuedForRows, StampedMeansVerified
<1> QED
  BY <1>2, <1>3, <1>4, <1>5 DEF IInv

------------------------------------------------------------------------------
(* Steps that change a row.  The conjuncts of the invariant other than      *)
(* UnusedIsBlank survive any such step that keeps the row's identity and    *)
(* takes no verification back.                                              *)

LEMMA RowStepKeeps ==
  ASSUME IInv, NEW i \in Ids, NEW e \in Rows, RowBecomes(i, e),
         e.name # NoName,
         domains[i].ownership = "verified" => e.ownership = "verified",
         UNCHANGED <<backend, verifications, req, now, issued>>
  PROVE  IInv'
<1>1. TypeOK'
  BY DEF IInv, TypeOK, RowBecomes
<1>2. UnusedIsBlank'
  BY DEF IInv, UnusedIsBlank, RowBecomes
<1>3. \A j : IsRow(j) => IsRow(j)'
  BY DEF IsRow, RowBecomes
<1>4. RequestsOnRows'
  BY <1>3 DEF IInv, RequestsOnRows
<1>5. IssuedForRows'
  BY <1>3 DEF IInv, IssuedForRows
<1>6. \A j \in Ids : domains[j].ownership = "verified"
                        => domains'[j].ownership = "verified"
  BY DEF RowBecomes
<1>7. StampedMeansVerified'
  BY <1>6 DEF IInv, StampedMeansVerified, TypeOK, Verifications
<1>8. MarkedIsVerified'
  BY <1>6 DEF IInv, MarkedIsVerified, RequestsOnRows, IsRow
<1>9. TokensWereIssued' /\ MatchedWasIssued'
  BY DEF IInv, TokensWereIssued, MatchedWasIssued
<1> QED
  BY <1>1, <1>2, <1>4, <1>5, <1>7, <1>8, <1>9 DEF IInv

Created(n, born) == [name |-> n, life |-> born, ownership |-> "pending"]

AfterDelete(r) == [name |-> r.name, life |-> "deleted",
                   ownership |-> r.ownership]

AfterVerify(r) == [name |-> r.name, life |-> r.life, ownership |-> "verified"]

LEMMA CreateRow ==
  ASSUME TypeOK, NEW i \in Ids, NEW n \in Names,
         NEW born \in {"live", "deleted"},
         Create(i, n, born)
  PROVE  RowBecomes(i, Created(n, born)) /\ Created(n, born) \in Rows
  BY DEF TypeOK, Create, NoRow, Rows, RowBecomes, Created

LEMMA DeleteRow ==
  ASSUME TypeOK, NEW i \in Ids, Delete(i)
  PROVE  RowBecomes(i, AfterDelete(domains[i])) /\ AfterDelete(domains[i]) \in Rows
  BY DEF TypeOK, Delete, Rows, RowBecomes, AfterDelete

LEMMA CreateKeeps ==
  ASSUME IInv, NEW i \in Ids, NEW n \in Names, NEW born \in {"live", "deleted"},
         Create(i, n, born)
  PROVE  IInv'
<1>1. TypeOK
  BY DEF IInv
<1>2. RowBecomes(i, Created(n, born)) /\ Created(n, born) \in Rows
  BY <1>1, CreateRow
<1>3. Created(n, born).name # NoName
  BY NothingAssumption DEF Created
<1>4. domains[i].ownership # "verified"
  BY DEF Create, IInv, UnusedIsBlank, NoRow
<1>5. UNCHANGED <<backend, verifications, req, now, issued>>
  BY DEF Create
<1> QED
  BY <1>2, <1>3, <1>4, <1>5, RowStepKeeps

LEMMA DeleteKeeps ==
  ASSUME IInv, NEW i \in Ids, Delete(i)
  PROVE  IInv'
<1>1. TypeOK
  BY DEF IInv
<1>2. RowBecomes(i, AfterDelete(domains[i])) /\ AfterDelete(domains[i]) \in Rows
  BY <1>1, DeleteRow
<1>3. AfterDelete(domains[i]).name # NoName
  BY DEF AfterDelete, Delete, Gets
<1>4. domains[i].ownership = "verified"
         => AfterDelete(domains[i]).ownership = "verified"
  BY DEF AfterDelete
<1>5. UNCHANGED <<backend, verifications, req, now, issued>>
  BY DEF Delete
<1> QED
  BY <1>2, <1>3, <1>4, <1>5, RowStepKeeps

------------------------------------------------------------------------------
(* Steps that change a request alone.  What the request newly claims to     *)
(* know has to hold at that step; nothing else can be disturbed.            *)

LEMMA RequestStepKeeps ==
  ASSUME IInv, NEW p \in Procs, NEW e \in Requests, RequestBecomes(p, e),
         e.at # "idle" => IsRow(e.id),
         e.at \in {"matched", "marked"} =>
            \E s \in issued : s.domain = e.id /\ s.token = e.token,
         e.at = "marked" => domains[e.id].ownership = "verified",
         UNCHANGED <<backend, domains, verifications, now, issued>>
  PROVE  IInv'
<1>1. TypeOK'
  BY DEF IInv, TypeOK, RequestBecomes
<1>2. UnusedIsBlank' /\ TokensWereIssued' /\ StampedMeansVerified'
  BY DEF IInv, UnusedIsBlank, TokensWereIssued, StampedMeansVerified
<1>3. IssuedForRows'
  BY DEF IInv, IssuedForRows, IsRow
<1>4. RequestsOnRows'
  BY DEF IInv, RequestsOnRows, RequestBecomes, IsRow
<1>5. MatchedWasIssued'
  BY DEF IInv, MatchedWasIssued, RequestBecomes
<1>6. MarkedIsVerified'
  BY DEF IInv, MarkedIsVerified, RequestBecomes
<1> QED
  BY <1>1, <1>2, <1>3, <1>4, <1>5, <1>6 DEF IInv

Asked(at, i, t) == [at |-> at, id |-> i, token |-> t, began |-> now]

LEMMA AskTokenKeeps ==
  ASSUME IInv, NEW p \in Procs, NEW i \in Ids, AskToken(p, i)
  PROVE  IInv'
<1>1. /\ RequestBecomes(p, Asked("issuing", i, NoToken))
      /\ Asked("issuing", i, NoToken) \in Requests
  BY DEF AskToken, IInv, TypeOK, RequestBecomes, Asked, Requests
<1>2. IsRow(i)
  BY DEF AskToken, Gets, IsRow
<1>3. UNCHANGED <<backend, domains, verifications, now, issued>>
  BY DEF AskToken
<1> QED
  BY <1>1, <1>2, <1>3, RequestStepKeeps DEF Asked

LEMMA AskVerifyKeeps ==
  ASSUME IInv, NEW p \in Procs, NEW i \in Ids, NEW t \in Tokens,
         AskVerify(p, i, t)
  PROVE  IInv'
<1>1. /\ RequestBecomes(p, Asked("reading", i, t))
      /\ Asked("reading", i, t) \in Requests
  BY DEF AskVerify, IInv, TypeOK, RequestBecomes, Asked, Requests
<1>2. IsRow(i)
  BY DEF AskVerify, Gets, IsRow
<1>3. UNCHANGED <<backend, domains, verifications, now, issued>>
  BY DEF AskVerify
<1> QED
  BY <1>1, <1>2, <1>3, RequestStepKeeps DEF Asked

LEMMA ReadMatchingKeeps ==
  ASSUME IInv, NEW p \in Procs, ReadMatching(p)
  PROVE  IInv'
<1>1. RequestBecomes(p, At(p, "matched")) /\ At(p, "matched") \in Requests
  BY DEF ReadMatching, IInv, TypeOK, RequestBecomes, At, Requests
<1>2. IsRow(req[p].id)
  BY DEF ReadMatching, IInv, RequestsOnRows
<1>3. PICK v \in verifications : v.domain = req[p].id /\ v.token = req[p].token
  BY DEF ReadMatching, OnFile, TokensOf
<1>4. \E s \in issued : s.domain = req[p].id /\ s.token = req[p].token
  BY <1>3 DEF IInv, TokensWereIssued
<1>5. UNCHANGED <<backend, domains, verifications, now, issued>>
  BY DEF ReadMatching
<1> QED
  BY <1>1, <1>2, <1>4, <1>5, RequestStepKeeps DEF At

LEMMA EndsIdle ==
  ASSUME IInv, NEW p \in Procs, req' = [req EXCEPT ![p] = Idle],
         UNCHANGED <<backend, domains, verifications, now, issued>>
  PROVE  IInv'
<1>1. RequestBecomes(p, Idle) /\ Idle \in Requests
  BY IdleIsRequest DEF IInv, TypeOK, RequestBecomes
<1> QED
  BY <1>1, RequestStepKeeps DEF Idle

LEMMA ReadOtherKeeps ==
  ASSUME IInv, NEW p \in Procs, ReadOther(p)
  PROVE  IInv'
  BY EndsIdle DEF ReadOther

LEMMA AbandonKeeps ==
  ASSUME IInv, NEW p \in Procs, Abandon(p)
  PROVE  IInv'
  BY EndsIdle DEF Abandon

------------------------------------------------------------------------------
(* Steps that change a table and a request, and the clock.                  *)

LEMMA MarkDomainEffect ==
  ASSUME IInv, NEW p \in Procs, MarkDomain(p)
  PROVE  /\ req[p].id \in Ids
         /\ RowBecomes(req[p].id, AfterVerify(domains[req[p].id]))
         /\ RequestBecomes(p, At(p, "marked"))
<1>1. req[p].id \in Ids
  BY DEF MarkDomain, IInv, RequestsOnRows, IsRow
<1>2. RowBecomes(req[p].id, AfterVerify(domains[req[p].id]))
  BY <1>1 DEF MarkDomain, IInv, TypeOK, Rows, RowBecomes, AfterVerify
<1>3. RequestBecomes(p, At(p, "marked"))
  BY DEF MarkDomain, IInv, TypeOK, RequestBecomes, At, Requests
<1> QED
  BY <1>1, <1>2, <1>3

LEMMA MarkDomainKeeps ==
  ASSUME IInv, NEW p \in Procs, MarkDomain(p)
  PROVE  IInv'
<1> DEFINE i == req[p].id
<1>1. /\ i \in Ids
      /\ RowBecomes(i, AfterVerify(domains[i]))
      /\ RequestBecomes(p, At(p, "marked"))
  BY MarkDomainEffect
<1>2. /\ domains[i].name # NoName /\ req[p].at = "matched"
      /\ UNCHANGED <<backend, verifications, now, issued>>
  BY DEF MarkDomain, IInv, RequestsOnRows, IsRow
<1>3. verifications' = verifications /\ issued' = issued
  BY <1>2
<1>4. \A j : IsRow(j) => IsRow(j)'
  BY <1>1, <1>2 DEF IsRow, RowBecomes, AfterVerify
<1>5. \A j \in Ids : domains[j].ownership = "verified"
                        => domains'[j].ownership = "verified"
  BY <1>1 DEF RowBecomes, AfterVerify
<1>6. TypeOK'
  BY <1>1, <1>2 DEF IInv, TypeOK, RowBecomes, RequestBecomes
<1>7. UnusedIsBlank'
  BY <1>1, <1>2 DEF IInv, UnusedIsBlank, RowBecomes, AfterVerify
<1>8. RequestsOnRows'
  <2> SUFFICES ASSUME NEW q \in Procs, req'[q].at # "idle"
               PROVE  req'[q].id \in Ids /\ domains'[req'[q].id].name # NoName
    BY DEF RequestsOnRows, IsRow
  <2>1. req'[q].id = req[q].id /\ req[q].at # "idle"
    BY <1>1, <1>2 DEF RequestBecomes, At
  <2>2. IsRow(req[q].id)
    BY <2>1 DEF IInv, RequestsOnRows
  <2> QED
    BY <1>4, <2>1, <2>2 DEF IsRow
<1>9. TokensWereIssued'
  BY <1>3 DEF IInv, TokensWereIssued
<1>10. IssuedForRows'
  BY <1>3, <1>4 DEF IInv, IssuedForRows
<1>11. MatchedWasIssued'
  BY <1>1, <1>2 DEF IInv, MatchedWasIssued, RequestBecomes, At
<1>12. StampedMeansVerified'
  BY <1>3, <1>5 DEF IInv, StampedMeansVerified, TypeOK, Verifications
<1>13. MarkedIsVerified'
  <2> SUFFICES ASSUME NEW q \in Procs, req'[q].at = "marked"
               PROVE  domains'[req'[q].id].ownership = "verified"
    BY DEF MarkedIsVerified
  <2>1. CASE q = p
    BY <1>1, <2>1 DEF RowBecomes, RequestBecomes, At, AfterVerify
  <2>2. CASE q # p
    <3>1. req'[q] = req[q]
      BY <1>1, <2>2 DEF RequestBecomes
    <3>2. req[q].id \in Ids /\ domains[req[q].id].ownership = "verified"
      BY <3>1 DEF IInv, MarkedIsVerified, RequestsOnRows, IsRow
    <3> QED
      BY <1>5, <3>1, <3>2
  <2> QED
    BY <2>1, <2>2
<1> QED
  BY <1>6, <1>7, <1>8, <1>9, <1>10, <1>11, <1>12, <1>13 DEF IInv

Stamped(v) == [domain |-> v.domain, token |-> v.token, created |-> v.created,
               verifiedAt |-> "set"]

LEMMA MarkVerificationKeeps ==
  ASSUME IInv, NEW p \in Procs, MarkVerification(p)
  PROVE  IInv'
<1>1. RequestBecomes(p, Idle) /\ UNCHANGED <<backend, domains, now, issued>>
  BY IdleIsRequest DEF MarkVerification, IInv, TypeOK, RequestBecomes
<1>2. \A v \in verifications' :
         \/ v \in verifications
         \/ \E w \in verifications : w.domain = req[p].id /\ v = Stamped(w)
  BY DEF MarkVerification, StampTokensOf, TokensOf, IInv, TypeOK, Verifications,
         Stamped
<1>3. TypeOK'
  BY <1>1, <1>2 DEF IInv, TypeOK, RequestBecomes, Verifications, Stamped
<1>4. UnusedIsBlank' /\ IssuedForRows'
  BY <1>1 DEF IInv, UnusedIsBlank, IssuedForRows, IsRow
<1>5. RequestsOnRows' /\ MatchedWasIssued' /\ MarkedIsVerified'
  BY <1>1 DEF IInv, RequestsOnRows, MatchedWasIssued, MarkedIsVerified,
              RequestBecomes, Idle, IsRow
<1>6. TokensWereIssued'
  BY <1>1, <1>2 DEF IInv, TokensWereIssued, Stamped
<1>7. StampedMeansVerified'
  <2>1. domains[req[p].id].ownership = "verified"
    BY DEF MarkVerification, IInv, MarkedIsVerified
  <2> QED
    BY <1>1, <1>2, <2>1 DEF IInv, StampedMeansVerified, Stamped
<1> QED
  BY <1>3, <1>4, <1>5, <1>6, <1>7 DEF IInv

LEMMA IssueTokenKeeps ==
  ASSUME IInv, NEW p \in Procs, NEW t \in Tokens, IssueToken(p, t)
  PROVE  IInv'
<1> DEFINE s == [domain |-> req[p].id, token |-> t,
                 began |-> req[p].began, ended |-> now]
<1>1. /\ req[p].at = "issuing"
      /\ IsRow(req[p].id)
      /\ issued' = issued \cup {s}
      /\ UNCHANGED <<backend, domains, now>>
  BY DEF IssueToken, IInv, RequestsOnRows
<1>2. RequestBecomes(p, Idle)
  BY IdleIsRequest DEF IssueToken, IInv, TypeOK, RequestBecomes
<1>3. PICK c \in req[p].began..now :
         WriteToken([domain |-> req[p].id, token |-> t, created |-> c,
                     verifiedAt |-> "null"])
  BY DEF IssueToken
<1> DEFINE v == [domain |-> req[p].id, token |-> t, created |-> c,
                 verifiedAt |-> "null"]
<1>4. verifications' \subseteq verifications \cup {v}
  BY <1>3 DEF WriteToken
<1>5. c \in Times /\ req[p].began \in Times /\ now \in Times
  BY <1>3, MaxTimeAssumption DEF IInv, TypeOK, Requests, Times
<1>6. v \in Verifications /\ s \in Issues
  BY <1>1, <1>5 DEF IsRow, Verifications, Issues
<1>7. TypeOK'
  BY <1>1, <1>2, <1>4, <1>6 DEF IInv, TypeOK, RequestBecomes
<1>8. UnusedIsBlank'
  BY <1>1 DEF IInv, UnusedIsBlank
<1>9. RequestsOnRows' /\ MarkedIsVerified'
  BY <1>1, <1>2
  DEF IInv, RequestsOnRows, MarkedIsVerified, RequestBecomes, Idle, IsRow
<1>10. TokensWereIssued'
  <2>1. ASSUME NEW w \in verifications
        PROVE  \E r \in issued' : r.domain = w.domain /\ r.token = w.token
    BY <1>1 DEF IInv, TokensWereIssued
  <2>2. s \in issued' /\ s.domain = v.domain /\ s.token = v.token
    BY <1>1
  <2> QED
    BY <1>4, <2>1, <2>2 DEF TokensWereIssued
<1>11. IssuedForRows'
  BY <1>1 DEF IInv, IssuedForRows, IsRow
<1>12. MatchedWasIssued'
  BY <1>1, <1>2 DEF IInv, MatchedWasIssued, RequestBecomes, Idle
<1>13. StampedMeansVerified'
  BY <1>1, <1>4 DEF IInv, StampedMeansVerified
<1> QED
  BY <1>7, <1>8, <1>9, <1>10, <1>11, <1>12, <1>13 DEF IInv

LEMMA TickKeeps ==
  ASSUME IInv, Tick
  PROVE  IInv'
<1>1. now' \in Times
  BY MaxTimeAssumption DEF Tick, IInv, TypeOK, Times
<1>2. UNCHANGED <<backend, domains, verifications, req, issued>>
  BY DEF Tick
<1> QED
  BY <1>1, <1>2
  DEF IInv, TypeOK, UnusedIsBlank, RequestsOnRows, TokensWereIssued,
      IssuedForRows, MatchedWasIssued, StampedMeansVerified, MarkedIsVerified,
      IsRow

LEMMA NextIInv == IInv /\ [Next]_vars => IInv'
<1> SUFFICES ASSUME IInv, [Next]_vars PROVE IInv'
  OBVIOUS
<1>1. CASE UNCHANGED vars
  BY <1>1
  DEF vars, IInv, TypeOK, UnusedIsBlank, RequestsOnRows, TokensWereIssued,
      IssuedForRows, MatchedWasIssued, StampedMeansVerified, MarkedIsVerified,
      IsRow
<1> QED
  BY <1>1, CreateKeeps, DeleteKeeps, AskTokenKeeps, IssueTokenKeeps,
     AskVerifyKeeps, ReadMatchingKeeps, ReadOtherKeeps, MarkDomainKeeps,
     MarkVerificationKeeps, AbandonKeeps, TickKeeps
  DEF Next

\* The tables, the requests in flight and the clock keep their types.
THEOREM TypeCorrect == Spec => []TypeOK
<1>1. IInv => TypeOK
  BY DEF IInv
<1> QED
  BY <1>1, InitIInv, NextIInv, PTL DEF Spec

\* verified_at is set only for tokens of verified domains, whichever requests
\* overlap and wherever one dies.
THEOREM StampedIsVerified == Spec => []StampedMeansVerified
<1>1. IInv => StampedMeansVerified
  BY DEF IInv
<1> QED
  BY <1>1, InitIInv, NextIInv, PTL DEF Spec

------------------------------------------------------------------------------
(* The refinement.  The variables of the registry as the tables show them:  *)

Registered == [i \in Ids |-> domains[i].name]
Deleted == {i \in Ids : domains[i].life = "deleted"}
TokensFor(i) == {s.token : s \in {r \in issued : r.domain = i}}
Issued == [i \in Ids |-> TokensFor(i)]
Verified == {i \in Ids : domains[i].ownership = "verified"}

LEMMA InitMaps == Init => Registry!Init
  BY DEF Init, NoRow, Registry!Init

LEMMA CreateMaps ==
  ASSUME IInv, NEW i \in Ids, NEW n \in Names, NEW born \in {"live", "deleted"},
         Create(i, n, born)
  PROVE  Registry!Create(i, n, born)
<1>1. RowBecomes(i, Created(n, born))
  BY CreateRow DEF IInv
<1>2. domains[i] = NoRow
  BY DEF Create, IInv, UnusedIsBlank
<1>3. Registered' = [Registered EXCEPT ![i] = n]
  <2>1. \A j \in Ids :
           domains'[j].name = IF j = i THEN n ELSE domains[j].name
    BY <1>1 DEF RowBecomes, Created
  <2> QED
    BY <2>1 DEF Registered
<1>4. Deleted' = IF born = "live" THEN Deleted ELSE Deleted \cup {i}
  BY <1>1, <1>2 DEF RowBecomes, Created, Deleted, NoRow
<1>5. Verified' = Verified
  BY <1>1, <1>2 DEF RowBecomes, Created, Verified, NoRow
<1>6. Issued' = Issued
  BY DEF Create, Issued, TokensFor
<1>7. born = "live" => \A j \in Ids : ~(domains[j].name = n /\ j \notin Deleted)
  BY DEF Create, NameIsFree, Deleted, IInv, TypeOK, Rows
<1>8. born = "live" => Registry!Live(n) = {}
  BY <1>7 DEF Registry!Live, Deleted
<1>9. Registered[i] = NoName
  BY <1>2 DEF Registered, NoRow
<1> QED
  BY <1>3, <1>4, <1>5, <1>6, <1>8, <1>9
  DEF Registry!Create, Registered, Deleted, Issued, TokensFor, Verified

LEMMA DeleteMaps ==
  ASSUME IInv, NEW i \in Ids, Delete(i)
  PROVE  Registry!Delete(i)
<1>1. RowBecomes(i, AfterDelete(domains[i]))
  BY DeleteRow DEF IInv
<1>2. /\ Registered' = Registered
      /\ Verified' = Verified
      /\ Deleted' = Deleted \cup {i}
  BY <1>1 DEF RowBecomes, AfterDelete, Registered, Verified, Deleted
<1>3. Issued' = Issued
  BY DEF Delete, Issued, TokensFor
<1>4. domains[i].name # NoName /\ domains[i].life = "live"
  BY DEF Delete, Gets
<1> QED
  BY <1>2, <1>3, <1>4
  DEF Registry!Delete, Registered, Deleted, Issued, TokensFor, Verified

LEMMA IssueTokenMaps ==
  ASSUME IInv, NEW p \in Procs, NEW t \in Tokens, IssueToken(p, t),
         NEW i \in Ids, i = req[p].id
  PROVE  Registry!Issue(i, t)
<1>1. domains[i].name # NoName
  BY DEF IssueToken, IInv, RequestsOnRows, IsRow
<1>2. issued' = issued \cup {[domain |-> i, token |-> t,
                              began |-> req[p].began, ended |-> now]}
  BY DEF IssueToken
<1>3. \A j \in Ids : TokensFor(j)' = IF j = i THEN TokensFor(j) \cup {t}
                                              ELSE TokensFor(j)
  <2> SUFFICES ASSUME NEW j \in Ids, NEW x
               PROVE  x \in TokensFor(j)'
                         <=> x \in TokensFor(j) \/ (j = i /\ x = t)
    OBVIOUS
  <2>1. x \in TokensFor(j) <=> \E r \in issued : r.domain = j /\ r.token = x
    BY DEF TokensFor
  <2>2. x \in TokensFor(j)' <=> \E r \in issued' : r.domain = j /\ r.token = x
    BY DEF TokensFor
  <2> DEFINE s == [domain |-> i, token |-> t, began |-> req[p].began,
                   ended |-> now]
  <2>3. issued' = issued \cup {s} /\ s.domain = i /\ s.token = t
    BY <1>2
  <2> HIDE DEF s
  <2> QED
    BY <2>1, <2>2, <2>3
<1>4. Issued' = [Issued EXCEPT ![i] = @ \cup {t}]
  BY <1>1, <1>3 DEF Issued
<1>5. \A j \in Ids : t \notin TokensFor(j)
  BY DEF IssueToken, TokensFor
<1>6. domains' = domains
  BY DEF IssueToken
<1> QED
  BY <1>1, <1>4, <1>5, <1>6
  DEF Registry!Issue, Registry!IsIssued, Issued, TokensFor

LEMMA MarkDomainMaps ==
  ASSUME IInv, NEW p \in Procs, MarkDomain(p), NEW i \in Ids, i = req[p].id
  PROVE  Registry!Verify(i)
<1>1. RowBecomes(i, AfterVerify(domains[i]))
  BY MarkDomainEffect
<1>2. /\ Registered' = Registered
      /\ Verified' = Verified \cup {i}
      /\ Deleted' = Deleted
  BY <1>1 DEF RowBecomes, AfterVerify, Registered, Verified, Deleted
<1>3. Issued' = Issued
  BY DEF MarkDomain, Issued, TokensFor
<1>4. TokensFor(i) # {}
  BY DEF MarkDomain, IInv, MatchedWasIssued, TokensFor
<1> QED
  BY <1>1, <1>2, <1>3, <1>4
  DEF Registry!Verify, Registered, Deleted, Issued, TokensFor, Verified

LEMMA StepMaps == IInv /\ [Next]_vars => [Registry!Next]_Registry!vars
<1> SUFFICES ASSUME IInv, [Next]_vars PROVE [Registry!Next]_Registry!vars
  OBVIOUS
<1>1. ASSUME NEW p \in Procs, NEW t \in Tokens, IssueToken(p, t)
      PROVE  Registry!Next
  <2>1. req[p].id \in Ids
    BY <1>1 DEF IssueToken, IInv, RequestsOnRows, IsRow
  <2> QED
    BY <1>1, <2>1, IssueTokenMaps DEF Registry!Next
<1>2. ASSUME NEW p \in Procs, MarkDomain(p) PROVE Registry!Next
  BY <1>2, MarkDomainEffect, MarkDomainMaps DEF Registry!Next
<1>3. ASSUME domains' = domains, issued' = issued
      PROVE  UNCHANGED Registry!vars
  BY <1>3 DEF Registry!vars
<1>4. ASSUME NEW p \in Procs,
             \/ \E i \in Ids : AskToken(p, i)
             \/ \E i \in Ids, t \in Tokens : AskVerify(p, i, t)
             \/ ReadMatching(p) \/ ReadOther(p)
             \/ MarkVerification(p) \/ Abandon(p)
      PROVE  domains' = domains /\ issued' = issued
  BY <1>4 DEF AskToken, AskVerify, ReadMatching, ReadOther, MarkVerification,
              Abandon
<1>5. Tick \/ UNCHANGED vars => domains' = domains /\ issued' = issued
  BY DEF Tick, vars
<1>6. ASSUME NEW i \in Ids, NEW n \in Names, NEW born \in {"live", "deleted"},
             Create(i, n, born)
      PROVE  Registry!Next
  BY <1>6, CreateMaps DEF Registry!Next
<1>7. ASSUME NEW i \in Ids, Delete(i) PROVE Registry!Next
  BY <1>7, DeleteMaps DEF Registry!Next
<1> QED
  BY <1>1, <1>2, <1>3, <1>4, <1>5, <1>6, <1>7 DEF Next

\* Every behaviour of the database stores is one the registry allows, for both
\* back ends and any number of requests that interleave between statements.
THEOREM Implements == Spec => ImplementsRegistry
  BY StepMaps, InitMaps, InitIInv, NextIInv, PTL
  DEF Spec, ImplementsRegistry, Registry!Spec

(* What the registry promises, the stores do.                               *)

\* What the tables show of the registry has the types the interface deals in.
THEOREM RegistryTypes == Spec => []Registry!TypeOK
<1>1. IInv => Registry!TypeOK
  <2> SUFFICES ASSUME IInv PROVE Registry!TypeOK
    OBVIOUS
  <2>1. domains \in [Ids -> Rows] /\ issued \subseteq Issues
    BY DEF IInv, TypeOK
  <2>2. Registered \in [Ids -> Names \cup {NoName}]
    BY <2>1 DEF Registered, Rows
  <2>3. Issued \in [Ids -> SUBSET Tokens]
    BY <2>1 DEF Issued, TokensFor, Issues
  <2> QED
    BY <2>2, <2>3 DEF Registry!TypeOK, Registered, Issued, TokensFor
<1> QED
  BY <1>1, InitIInv, NextIInv, PTL DEF Spec

LEMMA OneLiveKept ==
    ASSUME Registry!OneLivePerName, [Registry!Next]_Registry!vars
    PROVE  Registry!OneLivePerName'
<1> SUFFICES ASSUME NEW i \in Ids, NEW j \in Ids,
                    domains'[i].name \in Names, domains'[i].name = domains'[j].name,
                    domains'[i].life # "deleted", domains'[j].life # "deleted"
             PROVE  i = j
  BY DEF Registry!OneLivePerName
<1>1. (/\ domains[i].name \in Names /\ domains[i].name = domains[j].name
       /\ domains[i].life # "deleted" /\ domains[j].life # "deleted")
      => i = j
  BY DEF Registry!OneLivePerName
<1>2. ASSUME NEW k \in Ids, NEW n \in Names, NEW born \in {"live", "deleted"},
             Registry!Create(k, n, born)
      PROVE  i = j
  <2>1. \A l \in Ids : domains'[l].name = IF l = k THEN n ELSE domains[l].name
    BY <1>2 DEF Registry!Create
  <2>2. \A l \in Ids : domains'[l].life = "deleted" <=>
           domains[l].life = "deleted" \/ (l = k /\ born # "live")
    BY <1>2 DEF Registry!Create
  <2>3. CASE born = "deleted"
    BY <1>1, <2>1, <2>2, <2>3
  <2>4. CASE born = "live"
    <3>1. \A l \in Ids : domains[l].name = n => domains[l].life = "deleted"
      BY <1>2, <2>4 DEF Registry!Create, Registry!Live
    <3> QED
      BY <1>1, <2>1, <2>2, <2>4, <3>1
  <2> QED
    BY <2>3, <2>4
<1>3. ASSUME NEW k \in Ids, Registry!Delete(k) PROVE i = j
  BY <1>1, <1>3 DEF Registry!Delete
<1>4. ASSUME NEW k \in Ids, NEW t \in Tokens, Registry!Issue(k, t) PROVE i = j
  BY <1>1, <1>4 DEF Registry!Issue
<1>5. ASSUME NEW k \in Ids, Registry!Verify(k) PROVE i = j
  BY <1>1, <1>5 DEF Registry!Verify
<1>6. CASE UNCHANGED Registry!vars
  BY <1>1, <1>6 DEF Registry!vars
<1> QED
  BY <1>2, <1>3, <1>4, <1>5, <1>6 DEF Registry!Next

\* No name has two live rows, however requests interleave and die and however
\* often the name is deleted and registered anew.
THEOREM OneLiveRow == Spec => []Registry!OneLivePerName
<1>1. Init => Registry!OneLivePerName
  BY NothingAssumption DEF Init, NoRow, Registry!OneLivePerName
<1> QED
  BY <1>1, StepMaps, OneLiveKept, InitIInv, NextIInv, PTL DEF Spec

\* What the registry's actions are of what the tables show.
LEMMA StepShown ==
    ASSUME [Registry!Next]_Registry!vars
    PROVE  \/ \E k \in Ids, t \in Tokens :
                 /\ \A i \in Ids : t \notin Issued[i]
                 /\ Issued' = [Issued EXCEPT ![k] = @ \cup {t}]
                 /\ Verified' = Verified
           \/ Issued' = Issued /\ Verified' = Verified
           \/ \E k \in Ids :
                 Issued' = Issued /\ Issued[k] # {} /\ Verified' = Verified \cup {k}
<1> USE DEF Issued, TokensFor, Verified
<1>1. ASSUME NEW k \in Ids, NEW n \in Names, NEW born \in {"live", "deleted"},
             Registry!Create(k, n, born)
      PROVE  Issued' = Issued /\ Verified' = Verified
  BY <1>1 DEF Registry!Create
<1>2. ASSUME NEW k \in Ids, Registry!Delete(k)
      PROVE  Issued' = Issued /\ Verified' = Verified
  BY <1>2 DEF Registry!Delete
<1>3. ASSUME NEW k \in Ids, NEW t \in Tokens, Registry!Issue(k, t)
      PROVE  /\ \A i \in Ids : t \notin Issued[i]
             /\ Issued' = [Issued EXCEPT ![k] = @ \cup {t}]
             /\ Verified' = Verified
  <2>1. ~Registry!IsIssued(t) /\ Verified' = Verified
    BY <1>3 DEF Registry!Issue
  <2>2. \A i \in Ids : t \notin Issued[i]
    BY <2>1 DEF Registry!IsIssued
  <2>3. Issued' = [Issued EXCEPT ![k] = @ \cup {t}]
    BY <1>3, Zenon DEF Registry!Issue
  <2> QED
    BY <2>1, <2>2, <2>3
<1>4. ASSUME NEW k \in Ids, Registry!Verify(k)
      PROVE  Issued' = Issued /\ Issued[k] # {} /\ Verified' = Verified \cup {k}
  BY <1>4 DEF Registry!Verify
<1>5. CASE UNCHANGED Registry!vars
  BY <1>5 DEF Registry!vars
<1> QED
  BY <1>1, <1>2, <1>3, <1>4, <1>5, Zenon DEF Registry!Next

\* A verified row had a token, and no token was made for two rows: whoever
\* verified an earlier row of a name has not verified a later one.
THEOREM OwnToken == Spec => []Registry!VerifiedByOwnToken
<1> DEFINE Own == /\ \A i \in Verified : Issued[i] # {}
                  /\ \A i, j \in Ids : i # j => Issued[i] \cap Issued[j] = {}
<1>1. Own <=> Registry!VerifiedByOwnToken
  BY DEF Registry!VerifiedByOwnToken, Verified, Issued, TokensFor
<1>2. Init => Own
  BY DEF Init, NoRow, Verified, Issued, TokensFor
<1>3. IInv /\ Own /\ [Next]_vars => Own'
  <2> SUFFICES ASSUME IInv, Own, [Next]_vars PROVE Own'
    OBVIOUS
  <2>1. Verified \subseteq Ids /\ DOMAIN Issued = Ids
    BY DEF Verified, Issued
  <2>2. ASSUME NEW k \in Ids, NEW t \in Tokens, \A i \in Ids : t \notin Issued[i],
               Issued' = [Issued EXCEPT ![k] = @ \cup {t}], Verified' = Verified
        PROVE  Own'
    <3>1. \A i \in Ids :
             Issued'[i] = IF i = k THEN Issued[i] \cup {t} ELSE Issued[i]
      BY <2>1, <2>2
    <3> QED
      BY <2>1, <2>2, <3>1
  <2>3. CASE Issued' = Issued /\ Verified' = Verified
    BY <2>3
  <2>4. ASSUME NEW k \in Ids, Issued' = Issued, Issued[k] # {},
               Verified' = Verified \cup {k}
        PROVE  Own'
    BY <2>4
  <2> QED
    BY <2>2, <2>3, <2>4, StepMaps, StepShown
<1> QED
  BY <1>1, <1>2, <1>3, InitIInv, NextIInv, PTL DEF Spec

------------------------------------------------------------------------------
(* Rotation of tokens.  SQLite keeps the row written last, Postgres reads   *)
(* the row created last; the times at which a token was asked for and       *)
(* written bound both from the same side.                                   *)

IssuedOnce == \A s, r \in issued : s.token = r.token => s = r

TimesInOrder ==
    /\ \A s \in issued : s.began <= s.ended /\ s.ended <= now
    /\ \A p \in Procs : req[p].began <= now

CreatedMeanwhile ==
    \A v \in verifications : \A s \in issued :
        s.token = v.token => s.began <= v.created /\ v.created <= s.ended

\* SQLite: no token of the domain was written after the one on file.
LastIsOnFile ==
    \A v \in verifications : \A s, r \in issued :
        s.token = v.token /\ r.domain = v.domain => r.ended <= s.ended

\* Postgres: every token is on file.
AllAreOnFile ==
    \A r \in issued : \E v \in verifications :
        v.domain = r.domain /\ v.token = r.token

TInv ==
    /\ IInv /\ IssuedOnce /\ TimesInOrder /\ CreatedMeanwhile
    /\ backend = "sqlite" => LastIsOnFile
    /\ backend = "postgres" => AllAreOnFile

\* Steps that write neither table of tokens nor history keep TInv if they keep
\* the times of the requests behind the clock.
LEMMA OtherStepKeepsTInv ==
  ASSUME TInv, IInv', UNCHANGED <<backend, verifications, issued>>,
         now <= now', now' \in Times, \A p \in Procs : req'[p].began <= now'
  PROVE  TInv'
<1>1. now \in Nat /\ now' \in Nat /\ \A s \in issued : s.ended \in Nat
  BY DEF TInv, IInv, TypeOK, Times, Issues
<1>2. TimesInOrder'
  BY <1>1 DEF TInv, TimesInOrder
<1>3. IssuedOnce' /\ CreatedMeanwhile'
  BY DEF TInv, IssuedOnce, CreatedMeanwhile
<1>4. (LastIsOnFile => LastIsOnFile') /\ (AllAreOnFile => AllAreOnFile')
  BY DEF LastIsOnFile, AllAreOnFile
<1> QED
  BY <1>2, <1>3, <1>4 DEF TInv

LEMMA MarkVerificationKeepsTInv ==
  ASSUME TInv, NEW p \in Procs, MarkVerification(p)
  PROVE  TInv'
<1>1. IInv'
  BY MarkVerificationKeeps DEF TInv
<1>2. issued' = issued /\ now' = now /\ backend' = backend
  BY DEF MarkVerification
<1>3. \A v \in verifications' : \E w \in verifications :
         w.domain = v.domain /\ w.token = v.token /\ w.created = v.created
  BY DEF MarkVerification, StampTokensOf, TokensOf, TInv, IInv, TypeOK,
         Verifications
<1>4. \A w \in verifications : \E v \in verifications' :
         w.domain = v.domain /\ w.token = v.token
  <2> SUFFICES ASSUME NEW w \in verifications
               PROVE  \E v \in verifications' :
                         w.domain = v.domain /\ w.token = v.token
    OBVIOUS
  <2>1. CASE w.domain = req[p].id
    <3>1. [w EXCEPT !.verifiedAt = "set"] \in verifications'
      BY <2>1 DEF MarkVerification, StampTokensOf, TokensOf
    <3>2. w \in Verifications
      BY DEF TInv, IInv, TypeOK
    <3> QED
      BY <3>1, <3>2 DEF Verifications
  <2>2. CASE w.domain # req[p].id
    BY <2>2 DEF MarkVerification, StampTokensOf, TokensOf
  <2> QED
    BY <2>1, <2>2
<1>5. RequestBecomes(p, Idle)
  BY IdleIsRequest DEF MarkVerification, TInv, IInv, TypeOK, RequestBecomes
<1>6. 0 <= now
  BY DEF TInv, IInv, TypeOK, Times
<1>7. TimesInOrder'
  BY <1>2, <1>5, <1>6 DEF TInv, TimesInOrder, RequestBecomes, Idle
<1>8. IssuedOnce'
  BY <1>2 DEF TInv, IssuedOnce
<1>9. CreatedMeanwhile'
  BY <1>2, <1>3 DEF TInv, CreatedMeanwhile
<1>10. LastIsOnFile => LastIsOnFile'
  BY <1>2, <1>3 DEF LastIsOnFile
<1>11. AllAreOnFile => AllAreOnFile'
  <2> SUFFICES ASSUME AllAreOnFile, NEW r \in issued
               PROVE  \E v \in verifications' :
                         v.domain = r.domain /\ v.token = r.token
    BY <1>2 DEF AllAreOnFile
  <2>1. PICK w \in verifications : w.domain = r.domain /\ w.token = r.token
    BY DEF AllAreOnFile
  <2> QED
    BY <1>4, <2>1
<1> QED
  BY <1>1, <1>2, <1>7, <1>8, <1>9, <1>10, <1>11 DEF TInv

LEMMA IssueTokenKeepsTInv ==
  ASSUME TInv, NEW p \in Procs, NEW t \in Tokens, IssueToken(p, t)
  PROVE  TInv'
<1>1. IInv'
  BY IssueTokenKeeps DEF TInv
<1> DEFINE new == [domain |-> req[p].id, token |-> t,
                   began |-> req[p].began, ended |-> now]
<1>2. PICK c \in req[p].began..now :
         WriteToken([domain |-> req[p].id, token |-> t, created |-> c,
                     verifiedAt |-> "null"])
  BY DEF IssueToken
<1> DEFINE row == [domain |-> req[p].id, token |-> t, created |-> c,
                   verifiedAt |-> "null"]
<1>3. issued' = issued \cup {new} /\ now' = now
  BY DEF IssueToken
<1>4. /\ new.domain = req[p].id /\ new.token = t
      /\ new.began = req[p].began /\ new.ended = now
      /\ row.domain = req[p].id /\ row.token = t /\ row.created = c
  OBVIOUS
<1>5. /\ \A s \in issued : s.token # t
      /\ \A v \in verifications : v.token # t
  BY DEF IssueToken, TInv, IInv, TokensWereIssued
<1>6. /\ row \in verifications'
      /\ verifications' \subseteq verifications \cup {row}
      /\ backend = "postgres" => verifications' = verifications \cup {row}
      /\ backend = "sqlite" =>
            \A v \in verifications' : v.domain = req[p].id => v = row
  BY <1>2 DEF WriteToken, TokensOf
<1>7. /\ now \in Nat /\ req[p].began \in Nat /\ req[p].began <= now
      /\ c \in Nat /\ req[p].began <= c /\ c <= now
      /\ \A s \in issued : s.ended \in Nat /\ s.ended <= now
  BY <1>2, MaxTimeAssumption
  DEF TInv, IInv, TypeOK, Requests, Times, Issues, TimesInOrder
<1> HIDE DEF new, row
<1>8. IssuedOnce'
  BY <1>3, <1>4, <1>5 DEF TInv, IssuedOnce
<1>9. RequestBecomes(p, Idle)
  BY IdleIsRequest DEF IssueToken, TInv, IInv, TypeOK, RequestBecomes
<1>10. TimesInOrder'
  BY <1>3, <1>4, <1>7, <1>9 DEF TInv, TimesInOrder, RequestBecomes, Idle
<1>11. CreatedMeanwhile'
  BY <1>3, <1>4, <1>5, <1>6, <1>7 DEF TInv, CreatedMeanwhile
<1>12. ASSUME backend = "sqlite" PROVE LastIsOnFile'
  <2> SUFFICES ASSUME NEW v \in verifications', NEW s \in issued',
                      NEW r \in issued', s.token = v.token, r.domain = v.domain
               PROVE  r.ended <= s.ended
    BY DEF LastIsOnFile
  <2>1. CASE v = row
    BY <1>3, <1>4, <1>5, <1>7, <2>1
  <2>2. CASE v # row
    <3>1. v \in verifications /\ v.domain # req[p].id
      BY <1>6, <1>12, <2>2
    <3>2. s \in issued /\ r \in issued
      BY <1>3, <1>4, <1>5, <3>1
    <3> QED
      BY <1>12, <3>1, <3>2 DEF TInv, LastIsOnFile
  <2> QED
    BY <2>1, <2>2
<1>13. ASSUME backend = "postgres" PROVE AllAreOnFile'
  BY <1>3, <1>4, <1>6, <1>13 DEF TInv, AllAreOnFile
<1>14. backend' = backend
  BY DEF IssueToken
<1> QED
  BY <1>1, <1>8, <1>10, <1>11, <1>12, <1>13, <1>14 DEF TInv

LEMMA InitTInv == Init => TInv
<1> SUFFICES ASSUME Init PROVE TInv
  OBVIOUS
<1>1. IInv
  BY InitIInv
<1>2. TimesInOrder
  BY DEF Init, TimesInOrder, Idle
<1>3. IssuedOnce /\ CreatedMeanwhile /\ LastIsOnFile /\ AllAreOnFile
  BY DEF Init, IssuedOnce, CreatedMeanwhile, LastIsOnFile, AllAreOnFile
<1> QED
  BY <1>1, <1>2, <1>3 DEF TInv

LEMMA NextTInv == TInv /\ [Next]_vars => TInv'
<1> SUFFICES ASSUME TInv, [Next]_vars PROVE TInv'
  OBVIOUS
<1>1. IInv'
  BY NextIInv DEF TInv
<1>2. /\ now \in Times /\ now \in Nat /\ 0 <= now /\ req \in [Procs -> Requests]
      /\ \A p \in Procs : req[p].began <= now
  BY DEF TInv, IInv, TypeOK, TimesInOrder, Times
<1>3. ASSUME UNCHANGED <<backend, verifications, issued, now>>,
             \A p \in Procs : req'[p].began \in {0, now, req[p].began}
      PROVE  TInv'
  <2>1. now <= now' /\ now' \in Times /\ \A p \in Procs : req'[p].began <= now'
    BY <1>2, <1>3
  <2> QED
    BY <1>1, <1>3, <2>1, OtherStepKeepsTInv
<1>4. ASSUME NEW i \in Ids, NEW n \in Names, NEW born \in {"live", "deleted"},
             Create(i, n, born)
      PROVE  TInv'
  BY <1>3, <1>4 DEF Create
<1>5. ASSUME NEW i \in Ids, Delete(i) PROVE TInv'
  BY <1>3, <1>5 DEF Delete
<1>6. ASSUME NEW p \in Procs, NEW i \in Ids, AskToken(p, i) PROVE TInv'
  BY <1>2, <1>3, <1>6 DEF AskToken
<1>7. ASSUME NEW p \in Procs, NEW i \in Ids, NEW t \in Tokens,
             AskVerify(p, i, t)
      PROVE  TInv'
  BY <1>2, <1>3, <1>7 DEF AskVerify
<1>8. ASSUME NEW p \in Procs, ReadMatching(p) PROVE TInv'
  <2>1. RequestBecomes(p, At(p, "matched"))
    BY <1>8 DEF ReadMatching, TInv, IInv, TypeOK, RequestBecomes, At, Requests
  <2>2. \A q \in Procs : req'[q].began = req[q].began
    BY <2>1 DEF RequestBecomes, At
  <2> QED
    BY <1>3, <1>8, <2>2 DEF ReadMatching
<1>9. ASSUME NEW p \in Procs, ReadOther(p) \/ Abandon(p) PROVE TInv'
  BY <1>2, <1>3, <1>9 DEF ReadOther, Abandon, Idle
<1>10. ASSUME NEW p \in Procs, MarkDomain(p) PROVE TInv'
  <2>1. RequestBecomes(p, At(p, "marked"))
    BY <1>10, MarkDomainEffect DEF TInv
  <2>2. \A q \in Procs : req'[q].began = req[q].began
    BY <2>1 DEF RequestBecomes, At
  <2> QED
    BY <1>3, <1>10, <2>2 DEF MarkDomain
<1>11. ASSUME NEW p \in Procs, MarkVerification(p) PROVE TInv'
  BY <1>11, MarkVerificationKeepsTInv
<1>12. ASSUME NEW p \in Procs, NEW t \in Tokens, IssueToken(p, t) PROVE TInv'
  BY <1>12, IssueTokenKeepsTInv
<1>13. CASE Tick
  <2>1. now <= now' /\ now' \in Times /\ \A p \in Procs : req'[p].began <= now'
    <3>1. /\ now' = now + 1 /\ req' = req
          /\ \A p \in Procs : req[p].began \in Nat
      BY <1>2, <1>13 DEF Tick, Requests, Times
    <3> QED
      BY <1>1, <1>2, <3>1 DEF IInv, TypeOK
  <2> QED
    BY <1>1, <1>13, <2>1, OtherStepKeepsTInv DEF Tick
<1>14. CASE UNCHANGED vars
  BY <1>3, <1>14 DEF vars
<1> QED
  BY <1>4, <1>5, <1>6, <1>7, <1>8, <1>9, <1>10, <1>11, <1>12, <1>13, <1>14
  DEF Next

LEMMA TInvRetires == TInv => RotationRetires
<1> SUFFICES ASSUME TInv, NEW s \in issued, NEW r \in issued,
                    s.domain = r.domain, s.ended < r.began,
                    NEW v \in OnFile(s.domain), v.token = s.token
             PROVE  FALSE
  BY DEF RotationRetires
<1>1. /\ v \in verifications /\ v.domain = s.domain
      /\ \A w \in TokensOf(s.domain) : w.created <= v.created
  BY DEF OnFile, TokensOf
<1>2. /\ s.ended \in Nat /\ r.began \in Nat /\ r.ended \in Nat
      /\ \A w \in verifications : w.created \in Nat
  BY DEF TInv, IInv, TypeOK, Issues, Verifications, Times
<1>3. CASE backend = "sqlite"
  <2>1. r.ended <= s.ended /\ r.began <= r.ended
    BY <1>1, <1>3 DEF TInv, LastIsOnFile, TimesInOrder
  <2> QED
    BY <1>2, <2>1
<1>4. CASE backend = "postgres"
  <2>1. PICK w \in verifications : w.domain = r.domain /\ w.token = r.token
    BY <1>4 DEF TInv, AllAreOnFile
  <2>2. w.created <= v.created
    BY <1>1, <2>1 DEF TokensOf
  <2>3. r.began <= w.created /\ v.created <= s.ended
    BY <1>1, <2>1 DEF TInv, CreatedMeanwhile
  <2> QED
    BY <1>1, <1>2, <2>2, <2>3
<1> QED
  BY <1>3, <1>4, BackendAssumption DEF TInv, IInv, TypeOK

\* A token asked for after another one of its domain was handed out retires
\* that one for good, in both back ends and for any number of requests.
THEOREM Rotation == Spec => []RotationRetires
  BY InitTInv, NextTInv, TInvRetires, PTL DEF Spec

\* The request of q presented a token retired before it began.
PresentsRetired(q) ==
    \E s, r \in issued :
        /\ s.domain = r.domain /\ s.token = req[q].token
        /\ s.ended < r.began /\ r.ended < req[q].began

\* A step that issues nothing is harmless if every request past the comparison
\* was there before with the same token and start, or presents no retired one.
LEMMA NoneRetired ==
  ASSUME RetiredTokenNeverVerifies, UNCHANGED issued,
         \A q \in Procs : req'[q].at \in {"matched", "marked"} =>
            \/ ~PresentsRetired(q)'
            \/ /\ req[q].at \in {"matched", "marked"}
               /\ req'[q].token = req[q].token /\ req'[q].began = req[q].began
  PROVE  RetiredTokenNeverVerifies'
<1> SUFFICES ASSUME NEW q \in Procs, req'[q].at \in {"matched", "marked"}
             PROVE  ~PresentsRetired(q)'
  BY DEF RetiredTokenNeverVerifies, PresentsRetired
<1>1. CASE req[q].at \in {"matched", "marked"} /\ req'[q].token = req[q].token
           /\ req'[q].began = req[q].began
  BY <1>1 DEF RetiredTokenNeverVerifies, PresentsRetired
<1> QED
  BY <1>1

\* A token that was compared and matched was on file, so it was not retired.
LEMMA MatchedIsNotRetired ==
  ASSUME TInv, NEW p \in Procs, ReadMatching(p)
  PROVE  ~PresentsRetired(p)'
<1> SUFFICES ASSUME NEW s \in issued, NEW r \in issued, s.domain = r.domain,
                    s.token = req[p].token, s.ended < r.began
             PROVE  FALSE
  <2>1. req'[p].token = req[p].token /\ issued' = issued
    BY DEF ReadMatching, TInv, IInv, TypeOK, Requests
  <2> QED
    BY <2>1 DEF PresentsRetired
<1>1. PICK v \in OnFile(req[p].id) : v.token = req[p].token
  BY DEF ReadMatching
<1>2. v \in verifications /\ v.domain = req[p].id
  BY DEF OnFile, TokensOf
<1>3. s.domain = req[p].id
  BY <1>1, <1>2 DEF TInv, IInv, TokensWereIssued, IssuedOnce
<1> QED
  BY <1>1, <1>3, TInvRetires DEF RotationRetires

LEMMA NextRetired ==
  TInv /\ RetiredTokenNeverVerifies /\ [Next]_vars => RetiredTokenNeverVerifies'
<1> SUFFICES ASSUME TInv, RetiredTokenNeverVerifies, [Next]_vars
             PROVE  RetiredTokenNeverVerifies'
  OBVIOUS
<1>1. req \in [Procs -> Requests]
  BY DEF TInv, IInv, TypeOK
<1>2. ASSUME issued' = issued, NEW p \in Procs,
             \A q \in Procs : q # p => req'[q] = req[q],
             req'[p].at \in {"idle", "issuing", "reading"}
      PROVE  RetiredTokenNeverVerifies'
  BY <1>2, NoneRetired
<1>3. ASSUME issued' = issued, req' = req PROVE RetiredTokenNeverVerifies'
  BY <1>3, NoneRetired
<1>4. ASSUME NEW p \in Procs, NEW i \in Ids, AskToken(p, i)
      PROVE  RetiredTokenNeverVerifies'
  BY <1>1, <1>2, <1>4 DEF AskToken
<1>5. ASSUME NEW p \in Procs, NEW i \in Ids, NEW t \in Tokens,
             AskVerify(p, i, t)
      PROVE  RetiredTokenNeverVerifies'
  BY <1>1, <1>2, <1>5 DEF AskVerify
<1>6. ASSUME NEW p \in Procs, ReadOther(p) \/ MarkVerification(p) \/ Abandon(p)
      PROVE  RetiredTokenNeverVerifies'
  BY <1>1, <1>2, <1>6 DEF ReadOther, MarkVerification, Abandon, Idle
<1>7. ASSUME NEW p \in Procs, ReadMatching(p)
      PROVE  RetiredTokenNeverVerifies'
  <2>1. /\ issued' = issued
        /\ \A q \in Procs : q # p => req'[q] = req[q]
    BY <1>1, <1>7 DEF ReadMatching
  <2>2. ~PresentsRetired(p)'
    BY <1>7, MatchedIsNotRetired
  <2> QED
    BY <2>1, <2>2, NoneRetired
<1>8. ASSUME NEW p \in Procs, MarkDomain(p)
      PROVE  RetiredTokenNeverVerifies'
  <2>1. issued' = issued /\ req[p].at = "matched"
    BY <1>8 DEF MarkDomain
  <2>2. RequestBecomes(p, At(p, "marked"))
    BY <1>8, MarkDomainEffect DEF TInv
  <2>3. \A q \in Procs : req'[q].at \in {"matched", "marked"} =>
           /\ req[q].at \in {"matched", "marked"}
           /\ req'[q].token = req[q].token /\ req'[q].began = req[q].began
    BY <2>1, <2>2 DEF RequestBecomes, At
  <2> QED
    BY <2>1, <2>3, NoneRetired
<1>9. ASSUME NEW p \in Procs, NEW t \in Tokens, IssueToken(p, t)
      PROVE  RetiredTokenNeverVerifies'
  <2> SUFFICES ASSUME NEW q \in Procs, req'[q].at \in {"matched", "marked"},
                      NEW s \in issued', NEW r \in issued',
                      s.domain = r.domain, s.token = req'[q].token,
                      s.ended < r.began, r.ended < req'[q].began
               PROVE  FALSE
    BY DEF RetiredTokenNeverVerifies
  <2>1. req'[q] = req[q]
    BY <1>1, <1>9 DEF IssueToken, Idle
  <2>2. /\ \A x \in issued : x.ended <= now /\ x.began <= x.ended
        /\ \A x \in issued : x.ended \in Nat /\ x.began \in Nat
        /\ now \in Nat /\ req[q].began \in Nat /\ req[q].began <= now
        /\ req[p].began \in Nat /\ req[p].began <= now
    BY <1>1 DEF TInv, IInv, TypeOK, TimesInOrder, Issues, Requests, Times
  <2> DEFINE new == [domain |-> req[p].id, token |-> t,
                     began |-> req[p].began, ended |-> now]
  <2>3. issued' = issued \cup {new}
    BY <1>9 DEF IssueToken
  <2>4. new.ended = now /\ new.began = req[p].began
    OBVIOUS
  <2> HIDE DEF new
  <2>5. r # new
    BY <2>1, <2>2, <2>4
  <2>6. r \in issued
    BY <2>3, <2>5
  <2>7. s # new
    BY <2>2, <2>4, <2>6
  <2> QED
    BY <2>1, <2>3, <2>6, <2>7 DEF RetiredTokenNeverVerifies
<1> QED
  BY <1>3, <1>4, <1>5, <1>6, <1>7, <1>8, <1>9
  DEF Next, Create, Delete, Tick, vars

\* A request that began when a newer token had been handed out is never
\* satisfied by a token that one retired.
THEOREM RetiredTokenIsRefused == Spec => []RetiredTokenNeverVerifies
<1>1. Init => RetiredTokenNeverVerifies
  BY DEF Init, RetiredTokenNeverVerifies
<1> QED
  BY <1>1, InitTInv, NextTInv, NextRetired, PTL DEF Spec
==============================================================================
