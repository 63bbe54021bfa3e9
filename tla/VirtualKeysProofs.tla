------------------------- MODULE VirtualKeysProofs -------------------------
(***************************************************************************)
(* Proofs about VirtualKeys: types, what revocation and rotation           *)
(* guarantee, and the bound of the rate limiter, for any number of keys,   *)
(* administrators, proxies and calls and any window.                       *)
(***************************************************************************)
EXTENDS VirtualKeys, FiniteSetTheorems, TLAPS

\* The table of keys, and what refers to it.
keyVars == <<key, rotating, heir>>

\* The four ways in which a step changes the table of keys.
Created(i) ==
  /\ key[i].state = "absent"
  /\ \E tools \in SUBSET Tools, limit \in Limits, expiresAt \in Expiries :
       key' = [key EXCEPT ![i] = [state |-> "live", tools |-> tools,
                                  limit |-> limit, expiresAt |-> expiresAt]]
  /\ UNCHANGED <<rotating, heir>>

Revoked(i) == SetRevoked(i) /\ UNCHANGED <<rotating, heir>>

RotationBegun(a, i) ==
  /\ key[i].state # "absent"
  /\ SetRevoked(i)
  /\ rotating' = [rotating EXCEPT ![a] = i]
  /\ UNCHANGED heir

RotationEnded(a, i) ==
  /\ rotating[a] # None
  /\ key[i].state = "absent"
  /\ key' = [key EXCEPT ![i] = [state |-> "live", tools |-> key[rotating[a]].tools,
                                limit |-> key[rotating[a]].limit,
                                expiresAt |-> key[rotating[a]].expiresAt]]
  /\ heir' = [heir EXCEPT ![i] = rotating[a]]
  /\ rotating' = [rotating EXCEPT ![a] = None]

RotationLost(a) ==
  rotating' = [rotating EXCEPT ![a] = None] /\ UNCHANGED <<key, heir>>

KeyStep ==
  \/ UNCHANGED keyVars
  \/ \E i \in Ids : Created(i) \/ Revoked(i)
  \/ \E a \in Admins, i \in Ids : RotationBegun(a, i) \/ RotationEnded(a, i)
  \/ \E a \in Admins : RotationLost(a)

LEMMA StepsOfKeys == ASSUME [Next]_vars PROVE KeyStep
<1>1. ASSUME NEW i \in Ids, Create(i) PROVE KeyStep
  <2>1. Created(i)  BY <1>1 DEF Create, Insert, Created
  <2> QED  BY <2>1 DEF KeyStep
<1>2. ASSUME NEW i \in Ids, Revoke(i) PROVE KeyStep
  BY <1>2 DEF Revoke, Revoked, KeyStep
<1>3. ASSUME NEW a \in Admins, NEW i \in Ids, RotateRevoke(a, i) PROVE KeyStep
  <2>1. RotationBegun(a, i)  BY <1>3 DEF RotateRevoke, RotationBegun
  <2> QED  BY <2>1 DEF KeyStep
<1>4. ASSUME NEW a \in Admins, NEW i \in Ids, RotateCreate(a, i) PROVE KeyStep
  <2>1. RotationEnded(a, i)  BY <1>4 DEF RotateCreate, Insert, RotationEnded
  <2> QED  BY <2>1 DEF KeyStep
<1>5. ASSUME NEW a \in Admins, CrashAdmin(a) PROVE KeyStep
  BY <1>5 DEF CrashAdmin, RotationLost, KeyStep
<1>6. ASSUME NEW c \in Calls, NEW p \in Proxies, NEW i \in Ids, NEW tool \in Tools,
             Arrive(c, p, i, tool)
      PROVE  KeyStep
  BY <1>6 DEF Arrive, KeyStep, keyVars
<1>7. ASSUME NEW c \in Calls, Limit(c) PROVE KeyStep
  BY <1>7 DEF Limit, KeyStep, keyVars
<1>8. ASSUME NEW p \in Proxies, Restart(p) PROVE KeyStep
  BY <1>8 DEF Restart, KeyStep, keyVars
<1>9. CASE Tick  BY <1>9 DEF Tick, KeyStep, keyVars
<1>10. CASE UNCHANGED vars  BY <1>10 DEF vars, KeyStep, keyVars
<1> QED
  BY <1>1, <1>2, <1>3, <1>4, <1>5, <1>6, <1>7, <1>8, <1>9, <1>10 DEF Next

--------------------------------------------------------------------------
(* Types of the table and of what refers to it.                            *)

KeysTyped ==
  /\ key \in [Ids -> Row]
  /\ rotating \in [Admins -> Ids \cup {None}]
  /\ heir \in [Ids -> Ids \cup {None}]

LEMMA RowUpdate ==
  ASSUME key \in [Ids -> Row], NEW i \in Ids, NEW row \in Row,
         key' = [key EXCEPT ![i] = row]
  PROVE  key' \in [Ids -> Row]
OBVIOUS

\* A revocation changes the state of one row that exists, and nothing else.
LEMMA Revocation ==
  ASSUME KeysTyped, NEW i \in Ids, SetRevoked(i)
  PROVE  /\ key' \in [Ids -> Row]
         /\ \A j \in Ids \ {i} : key'[j] = key[j]
         /\ key[i].state = "absent" => key'[i] = key[i]
         /\ key[i].state # "absent" =>
              key'[i] = [state |-> "revoked", tools |-> key[i].tools,
                         limit |-> key[i].limit, expiresAt |-> key[i].expiresAt]
<1>1. key[i] \in Row  BY DEF KeysTyped
<1>2. CASE key[i].state = "absent"
  <2>1. key' = [key EXCEPT ![i].state = "absent"]  BY <1>2 DEF SetRevoked
  <2>2. [key[i] EXCEPT !.state = "absent"] = key[i]  BY <1>1, <1>2 DEF Row
  <2>3. key' = key  BY <2>1, <2>2 DEF KeysTyped
  <2> QED  BY <2>3, <1>2 DEF KeysTyped
<1>3. CASE key[i].state # "absent"
  <2> DEFINE row == [state |-> "revoked", tools |-> key[i].tools,
                     limit |-> key[i].limit, expiresAt |-> key[i].expiresAt]
  <2>1. key' = [key EXCEPT ![i].state = "revoked"]  BY <1>3 DEF SetRevoked
  <2>2. [key[i] EXCEPT !.state = "revoked"] = row  BY <1>1 DEF Row
  <2>3. row \in Row  BY <1>1 DEF Row
  <2>4. key' = [key EXCEPT ![i] = row]  BY <2>1, <2>2 DEF KeysTyped
  <2> HIDE DEF row
  <2>5. key' \in [Ids -> Row]  BY <2>3, <2>4, RowUpdate DEF KeysTyped
  <2>6. key'[i] = row /\ \A j \in Ids \ {i} : key'[j] = key[j]  BY <2>4 DEF KeysTyped
  <2> QED  BY <2>5, <2>6, <1>3 DEF row
<1> QED  BY <1>2, <1>3

\* An insertion writes one row that was absent.
Inserted(i, tools, limit, expiresAt) ==
  [state |-> "live", tools |-> tools, limit |-> limit, expiresAt |-> expiresAt]

LEMMA Insertion ==
  ASSUME KeysTyped, NEW i \in Ids, NEW tools \in SUBSET Tools,
         NEW limit \in Limits \cup {None}, NEW expiresAt \in Expiries \cup {None},
         key' = [key EXCEPT ![i] = Inserted(i, tools, limit, expiresAt)]
  PROVE  /\ key' \in [Ids -> Row]
         /\ key'[i] = Inserted(i, tools, limit, expiresAt)
         /\ \A j \in Ids \ {i} : key'[j] = key[j]
<1>1. Inserted(i, tools, limit, expiresAt) \in Row  BY DEF Inserted, Row
<1>2. key' \in [Ids -> Row]  BY <1>1, RowUpdate DEF KeysTyped
<1> QED  BY <1>2 DEF KeysTyped

--------------------------------------------------------------------------
(* The inductive invariant.  A row without a table entry has no history; a *)
(* rotation in flight has revoked its key, so its terms can no longer be   *)
(* anybody's but the heir's.                                               *)

Lineage ==
  /\ \A a \in Admins : rotating[a] # None => key[rotating[a]].state = "revoked"
  /\ \A i \in Ids : key[i].state = "absent" => heir[i] = None

KeyInv == KeysTyped /\ Lineage /\ RotatedKeyIsDead /\ HeirKeepsTerms

\* What the invariant says of one key and its predecessor.
LEMMA Predecessor ==
  ASSUME KeyInv, NEW i \in Ids, heir[i] # None
  PROVE  /\ heir[i] \in Ids
         /\ key[heir[i]].state = "revoked"
         /\ key[i].state # "absent"
         /\ key[i].tools = key[heir[i]].tools
         /\ key[i].limit = key[heir[i]].limit
         /\ key[i].expiresAt = key[heir[i]].expiresAt
<1>1. heir[i] \in Ids /\ key[i] \in Row /\ key[heir[i]] \in Row
  BY DEF KeyInv, KeysTyped
<1>2. [key[i] EXCEPT !.state = "revoked"] = key[heir[i]]  BY DEF KeyInv, HeirKeepsTerms
<1>3. /\ key[i].tools = key[heir[i]].tools
      /\ key[i].limit = key[heir[i]].limit
      /\ key[i].expiresAt = key[heir[i]].expiresAt
  BY <1>1, <1>2 DEF Row
<1> QED  BY <1>1, <1>3 DEF KeyInv, RotatedKeyIsDead, Lineage

\* The converse: rows that agree on their terms satisfy HeirKeepsTerms.
LEMMA SameTerms ==
  ASSUME NEW old \in Row, NEW new \in Row, old.state = "revoked",
         new.tools = old.tools, new.limit = old.limit, new.expiresAt = old.expiresAt
  PROVE  [new EXCEPT !.state = "revoked"] = old
BY DEF Row

LEMMA KeyInvInit == Init => KeyInv
BY KeysAssumption
DEF Init, KeyInv, KeysTyped, Lineage, RotatedKeyIsDead, HeirKeepsTerms, AbsentKey, Row

\* Rows that existed keep their terms, revoked rows stay, and the heirs are the
\* ones that were: then the invariant's parts about heirs survive.
LEMMA HeirsSurvive ==
  ASSUME KeyInv, KeysTyped', UNCHANGED heir,
         \A j \in Ids : key[j].state = "revoked" => key'[j] = key[j],
         \A j \in Ids : key[j].state # "absent" =>
           /\ key'[j].state # "absent"
           /\ key'[j].tools = key[j].tools
           /\ key'[j].limit = key[j].limit
           /\ key'[j].expiresAt = key[j].expiresAt
  PROVE  RotatedKeyIsDead' /\ HeirKeepsTerms'
<1> SUFFICES ASSUME NEW i \in Ids, heir'[i] # None
             PROVE  /\ key'[heir'[i]].state = "revoked"
                    /\ [key'[i] EXCEPT !.state = "revoked"] = key'[heir'[i]]
  BY DEF RotatedKeyIsDead, HeirKeepsTerms
<1>1. /\ heir[i] \in Ids /\ key[heir[i]].state = "revoked" /\ key[i].state # "absent"
      /\ key[i].tools = key[heir[i]].tools
      /\ key[i].limit = key[heir[i]].limit
      /\ key[i].expiresAt = key[heir[i]].expiresAt
  BY Predecessor
<1>2. key'[heir[i]] = key[heir[i]]  BY <1>1
<1>3. key'[i] \in Row /\ key'[heir[i]] \in Row  BY <1>1 DEF KeysTyped
<1> QED  BY <1>1, <1>2, <1>3, SameTerms

LEMMA KeyInvStep == ASSUME KeyInv, KeyStep PROVE KeyInv'
<1> USE KeysAssumption
<1>1. CASE UNCHANGED keyVars
  BY <1>1 DEF keyVars, KeyInv, KeysTyped, Lineage, RotatedKeyIsDead, HeirKeepsTerms
<1>2. ASSUME NEW i \in Ids, Created(i) PROVE KeyInv'
  <2>1. PICK tools \in SUBSET Tools, limit \in Limits, expiresAt \in Expiries :
          key' = [key EXCEPT ![i] = Inserted(i, tools, limit, expiresAt)]
    BY <1>2 DEF Created, Inserted
  <2>2. /\ key' \in [Ids -> Row]
        /\ key'[i] = Inserted(i, tools, limit, expiresAt)
        /\ \A j \in Ids \ {i} : key'[j] = key[j]
    BY <2>1, Insertion DEF KeyInv
  <2>3. key[i].state = "absent" /\ UNCHANGED <<rotating, heir>>  BY <1>2 DEF Created
  <2>4. KeysTyped'  BY <2>2, <2>3 DEF KeyInv, KeysTyped
  <2>5. Lineage'  BY <2>2, <2>3 DEF KeyInv, KeysTyped, Lineage, Inserted
  <2>6. RotatedKeyIsDead' /\ HeirKeepsTerms'  BY <2>2, <2>3, <2>4, HeirsSurvive
  <2> QED  BY <2>4, <2>5, <2>6 DEF KeyInv
<1>3. ASSUME NEW i \in Ids, SetRevoked(i), UNCHANGED heir, KeysTyped',
             \A a \in Admins : rotating'[a] \in {rotating[a], None} \cup
                                 (IF key[i].state = "absent" THEN {} ELSE {i})
      PROVE  KeyInv'
  <2>1. /\ \A j \in Ids \ {i} : key'[j] = key[j]
        /\ key[i].state = "absent" => key'[i] = key[i]
        /\ key[i].state # "absent" =>
             key'[i] = [state |-> "revoked", tools |-> key[i].tools,
                        limit |-> key[i].limit, expiresAt |-> key[i].expiresAt]
    BY <1>3, Revocation DEF KeyInv
  <2>2. \A j \in Ids : key[j] \in Row  BY DEF KeyInv, KeysTyped
  <2>3. \A j \in Ids : key[j].state = "revoked" => key'[j] = key[j]
    BY <2>1, <2>2 DEF Row
  <2>4. \A j \in Ids : key[j].state # "absent" =>
           /\ key'[j].state # "absent"
           /\ key'[j].tools = key[j].tools
           /\ key'[j].limit = key[j].limit
           /\ key'[j].expiresAt = key[j].expiresAt
    BY <2>1
  <2>5. RotatedKeyIsDead' /\ HeirKeepsTerms'  BY <1>3, <2>3, <2>4, HeirsSurvive
  <2>6. ASSUME NEW a \in Admins, rotating'[a] # None
        PROVE  key'[rotating'[a]].state = "revoked"
    <3>1. CASE rotating'[a] = rotating[a]
      BY <3>1, <2>6, <2>3 DEF KeyInv, Lineage, KeysTyped
    <3>2. CASE key[i].state # "absent" /\ rotating'[a] = i  BY <3>2, <2>1
    <3> QED  BY <3>1, <3>2, <2>6, <1>3
  <2>7. ASSUME NEW j \in Ids, key'[j].state = "absent" PROVE heir'[j] = None
    BY <2>7, <2>1, <1>3 DEF KeyInv, Lineage
  <2>8. Lineage'  BY <2>6, <2>7 DEF Lineage
  <2> QED  BY <1>3, <2>5, <2>8 DEF KeyInv
<1>4. ASSUME NEW i \in Ids, Revoked(i) PROVE KeyInv'
  <2>1. SetRevoked(i) /\ UNCHANGED <<rotating, heir>>  BY <1>4 DEF Revoked
  <2>2. KeysTyped'  BY <2>1, Revocation DEF KeyInv, KeysTyped
  <2> QED  BY <2>1, <2>2, <1>3
<1>5. ASSUME NEW a \in Admins, NEW i \in Ids, RotationBegun(a, i) PROVE KeyInv'
  <2>1. /\ SetRevoked(i) /\ UNCHANGED heir /\ key[i].state # "absent"
        /\ rotating' = [rotating EXCEPT ![a] = i]
    BY <1>5 DEF RotationBegun
  <2>2. KeysTyped'  BY <2>1, Revocation DEF KeyInv, KeysTyped
  <2>3. \A b \in Admins : rotating'[b] \in {rotating[b], None} \cup {i}
    BY <2>1 DEF KeyInv, KeysTyped
  <2> QED  BY <2>1, <2>2, <2>3, <1>3
<1>6. ASSUME NEW a \in Admins, NEW i \in Ids, RotationEnded(a, i) PROVE KeyInv'
  <2> DEFINE old == rotating[a]
  <2>1. /\ old # None /\ key[i].state = "absent"
        /\ key' = [key EXCEPT ![i] = Inserted(i, key[old].tools, key[old].limit,
                                              key[old].expiresAt)]
        /\ heir' = [heir EXCEPT ![i] = old]
        /\ rotating' = [rotating EXCEPT ![a] = None]
    BY <1>6 DEF RotationEnded, Inserted
  <2>2. old \in Ids /\ key[old] \in Row /\ key[old].state = "revoked" /\ old # i
    BY <2>1 DEF KeyInv, KeysTyped, Lineage
  <2> HIDE DEF old
  <2>3. /\ key[old].tools \in SUBSET Tools
        /\ key[old].limit \in Limits \cup {None}
        /\ key[old].expiresAt \in Expiries \cup {None}
    BY <2>2 DEF Row
  <2>4. /\ key' \in [Ids -> Row]
        /\ key'[i] = Inserted(i, key[old].tools, key[old].limit, key[old].expiresAt)
        /\ \A j \in Ids \ {i} : key'[j] = key[j]
    BY <2>1, <2>3, Insertion DEF KeyInv
  <2>5. KeysTyped'
    <3>1. rotating' \in [Admins -> Ids \cup {None}]  BY <2>1 DEF KeyInv, KeysTyped
    <3>2. heir' \in [Ids -> Ids \cup {None}]  BY <2>1, <2>2 DEF KeyInv, KeysTyped
    <3> QED  BY <2>4, <3>1, <3>2 DEF KeysTyped
  <2>6. ASSUME NEW b \in Admins, rotating'[b] # None
        PROVE  key'[rotating'[b]].state = "revoked"
    <3>1. rotating'[b] = rotating[b] /\ rotating[b] \in Ids
      BY <2>1, <2>6 DEF KeyInv, KeysTyped
    <3>2. key[rotating[b]].state = "revoked"  BY <3>1, <2>6 DEF KeyInv, Lineage
    <3>3. rotating[b] # i  BY <3>2, <2>1
    <3> QED  BY <3>1, <3>2, <3>3, <2>4
  <2>7. ASSUME NEW j \in Ids, key'[j].state = "absent" PROVE heir'[j] = None
    <3>1. j # i  BY <2>4, <2>7 DEF Inserted
    <3> QED  BY <3>1, <2>1, <2>4, <2>7 DEF KeyInv, KeysTyped, Lineage
  <2>8. Lineage'  BY <2>6, <2>7 DEF Lineage
  <2>9. ASSUME NEW j \in Ids, heir'[j] # None
        PROVE  /\ key'[heir'[j]].state = "revoked"
               /\ [key'[j] EXCEPT !.state = "revoked"] = key'[heir'[j]]
    <3>1. CASE j = i
      <4>1. heir'[j] = old /\ key'[old] = key[old]  BY <3>1, <2>1, <2>2, <2>4 DEF KeyInv, KeysTyped
      <4>2. key'[i] \in Row  BY <2>4
      <4>3. /\ key'[i].tools = key[old].tools
            /\ key'[i].limit = key[old].limit
            /\ key'[i].expiresAt = key[old].expiresAt
        BY <2>4 DEF Inserted
      <4> QED  BY <3>1, <4>1, <4>2, <4>3, <2>2, SameTerms
    <3>2. CASE j # i
      <4>1. heir'[j] = heir[j] /\ key'[j] = key[j]  BY <3>2, <2>1, <2>4 DEF KeyInv, KeysTyped
      <4>2. heir[j] \in Ids /\ key[heir[j]].state = "revoked"  BY <4>1, <2>9, Predecessor
      <4>3. heir[j] # i  BY <4>2, <2>1
      <4>4. key'[heir[j]] = key[heir[j]]  BY <4>2, <4>3, <2>4
      <4> QED  BY <4>1, <4>2, <4>4, <2>9 DEF KeyInv, HeirKeepsTerms
    <3> QED  BY <3>1, <3>2
  <2>10. RotatedKeyIsDead' /\ HeirKeepsTerms'  BY <2>9 DEF RotatedKeyIsDead, HeirKeepsTerms
  <2> QED  BY <2>5, <2>8, <2>10 DEF KeyInv
<1>7. ASSUME NEW a \in Admins, RotationLost(a) PROVE KeyInv'
  <2>1. rotating' = [rotating EXCEPT ![a] = None] /\ UNCHANGED <<key, heir>>
    BY <1>7 DEF RotationLost
  <2> QED
    BY <2>1 DEF KeyInv, KeysTyped, Lineage, RotatedKeyIsDead, HeirKeepsTerms
<1> QED
  BY <1>1, <1>2, <1>4, <1>5, <1>6, <1>7 DEF KeyStep

THEOREM KeyInvariance == Spec => []KeyInv
<1>1. KeyInv /\ [Next]_vars => KeyInv'  BY StepsOfKeys, KeyInvStep
<1> QED  BY KeyInvInit, <1>1, PTL DEF Spec

\* A rotation never leaves two keys that work: the predecessor is revoked.
THEOREM RotationRevokes == Spec => []RotatedKeyIsDead
<1>1. KeyInv => RotatedKeyIsDead  BY DEF KeyInv
<1> QED  BY KeyInvariance, <1>1, PTL

\* A rotated key carries the terms of its predecessor, and no others.
THEOREM RotationKeepsTerms == Spec => []HeirKeepsTerms
<1>1. KeyInv => HeirKeepsTerms  BY DEF KeyInv
<1> QED  BY KeyInvariance, <1>1, PTL

--------------------------------------------------------------------------
(* Revocation                                                              *)

\* Calls that have not arrived are resolved to no key.
NewCalls ==
  /\ call \in [Calls -> [pc: {"new", "limiter", "passed", "denied"},
                         proxy: Proxies \cup {None}, id: Ids \cup {None}]]
  /\ \A c \in Calls : call[c].pc = "new" => call[c].id = None

\* The only step that resolves a call resolves it to a live key.
LEMMA CallStep ==
  ASSUME NewCalls, [Next]_vars
  PROVE  /\ NewCalls'
         /\ \A c \in Calls : call[c].pc = "new" =>
              call'[c].id = None \/ key[call'[c].id].state = "live"
<1> USE KeysAssumption
<1>1. CASE UNCHANGED call  BY <1>1 DEF NewCalls
<1>2. ASSUME NEW c \in Calls, NEW p \in Proxies, NEW i \in Ids, NEW tool \in Tools,
             Arrive(c, p, i, tool)
      PROVE  /\ NewCalls'
             /\ \A d \in Calls : call[d].pc = "new" =>
                  call'[d].id = None \/ key[call'[d].id].state = "live"
  BY <1>2 DEF Arrive, Admissible, Valid, NewCalls
<1>3. ASSUME NEW c \in Calls, Limit(c)
      PROVE  NewCalls' /\ \A d \in Calls : call'[d].id = call[d].id
  <2>1. call[c].pc = "limiter"  BY <1>3 DEF Limit
  <2>2. \E pc \in {"passed", "denied"} : call' = [call EXCEPT ![c].pc = pc]
    BY <1>3 DEF Limit, Pass
  <2> QED  BY <2>1, <2>2 DEF NewCalls
<1>4. ASSUME NEW p \in Proxies, Restart(p)
      PROVE  NewCalls' /\ \A d \in Calls : call'[d].id = call[d].id
  BY <1>4 DEF Restart, NewCalls
<1>5. ASSUME Next, UNCHANGED call \/
             (\E c \in Calls : \/ \E p \in Proxies, i \in Ids, tool \in Tools :
                                    Arrive(c, p, i, tool)
                               \/ Limit(c)) \/
             (\E p \in Proxies : Restart(p))
      PROVE  /\ NewCalls'
             /\ \A c \in Calls : call[c].pc = "new" =>
                  call'[c].id = None \/ key[call'[c].id].state = "live"
  <2>1. CASE \E c \in Calls : Limit(c)  BY <2>1, <1>3 DEF NewCalls
  <2>2. CASE \E p \in Proxies : Restart(p)  BY <2>2, <1>4 DEF NewCalls
  <2> QED  BY <1>5, <1>1, <1>2, <2>1, <2>2
<1>6. CASE UNCHANGED vars  BY <1>6, <1>1 DEF vars
<1>7. CASE Next
  <2>1. \/ UNCHANGED call
        \/ \E c \in Calls, p \in Proxies, i \in Ids, tool \in Tools : Arrive(c, p, i, tool)
        \/ \E c \in Calls : Limit(c)
        \/ \E p \in Proxies : Restart(p)
    BY <1>7 DEF Next, Create, Revoke, RotateRevoke, RotateCreate, CrashAdmin, Tick
  <2> QED  BY <1>7, <2>1, <1>5
<1> QED  BY <1>6, <1>7

LEMMA NewCallsInit == Init => NewCalls
BY DEF Init, NewCalls, NewCall

\* A revoked row is never written again, whatever step is taken.
LEMMA RevokedRowStays ==
  ASSUME KeyInv, KeyStep, NEW i \in Ids, key[i].state = "revoked"
  PROVE  key'[i] = key[i]
<1>1. CASE UNCHANGED keyVars  BY <1>1 DEF keyVars
<1>2. ASSUME NEW j \in Ids, Created(j) PROVE key'[i] = key[i]
  BY <1>2 DEF Created, KeyInv, KeysTyped
<1>3. ASSUME NEW j \in Ids, SetRevoked(j) PROVE key'[i] = key[i]
  <2>1. CASE j # i  BY <1>3, <2>1, Revocation DEF KeyInv
  <2>2. CASE j = i
    <3>1. key'[i] = [state |-> "revoked", tools |-> key[i].tools,
                     limit |-> key[i].limit, expiresAt |-> key[i].expiresAt]
      BY <1>3, <2>2, Revocation DEF KeyInv
    <3>2. key[i] \in Row  BY DEF KeyInv, KeysTyped
    <3> QED  BY <3>1, <3>2 DEF Row
  <2> QED  BY <2>1, <2>2
<1>4. ASSUME NEW a \in Admins, NEW j \in Ids, RotationEnded(a, j) PROVE key'[i] = key[i]
  BY <1>4 DEF RotationEnded, KeyInv, KeysTyped
<1> QED
  BY <1>1, <1>2, <1>3, <1>4 DEF KeyStep, Revoked, RotationBegun, RotationLost

\* A revoked key admits no call that arrives afterwards, and nothing - not even
\* a rotation of it, or an insertion - brings it back.
THEOREM Revocability == Spec => RevokedForGood
<1>1. NewCalls /\ [Next]_vars => NewCalls'  BY CallStep
<1>2. KeyInv /\ NewCalls /\ [Next]_vars =>
        [\A i \in Ids :
           key[i].state = "revoked" =>
             /\ key'[i] = key[i]
             /\ \A c \in Calls : call[c].pc = "new" => call'[c].id # i]_vars
  <2> SUFFICES ASSUME KeyInv, NewCalls, [Next]_vars, NEW i \in Ids,
                      key[i].state = "revoked"
               PROVE  /\ key'[i] = key[i]
                      /\ \A c \in Calls : call[c].pc = "new" => call'[c].id # i
    OBVIOUS
  <2>1. key'[i] = key[i]  BY StepsOfKeys, RevokedRowStays
  <2>2. \A c \in Calls : call[c].pc = "new" => call'[c].id # i
    BY CallStep, KeysAssumption
  <2> QED  BY <2>1, <2>2
<1> QED  BY KeyInvariance, NewCallsInit, <1>1, <1>2, PTL DEF Spec, RevokedForGood

--------------------------------------------------------------------------
(* The rate limiter.  What passed in the last window is in the limiter's   *)
(* list, although the list forgets what is older; so counting the list     *)
(* bounds every window that ends now, and windows that are over stay as    *)
(* they are.                                                               *)

During(P, start) == {s \in P : s.at \in start .. start + Window}

Passes == SUBSET [call: Calls, at: Times]

\* R, a key's list, holds some of the passes P of its calls, all of them past.
Counted(P, R, t) ==
  /\ IsFiniteSet(P)
  /\ R \subseteq P
  /\ \A s \in P : s.at <= t

Remembered(P, R, t) == \A s \in P : s.at >= t - Window => s \in R

Kept(P, limit) == \A start \in Times : Cardinality(During(P, start)) <= limit

KeyLimited(p, i) ==
  /\ Counted(passed[p][i], recent[p][i], now)
  /\ key[i].state = "absent" => passed[p][i] = {}
  /\ Limited(i) => /\ Remembered(passed[p][i], recent[p][i], now)
                   /\ Kept(passed[p][i], key[i].limit)

LimiterTyped ==
  /\ now \in Times
  /\ recent \in [Proxies -> [Ids -> Passes]]
  /\ passed \in [Proxies -> [Ids -> Passes]]

AtLimiter ==
  \A c \in Calls : call[c].pc = "limiter" =>
    call[c].proxy \in Proxies /\ call[c].id \in Ids /\ key[call[c].id].state # "absent"

LimiterInv ==
  LimiterTyped /\ AtLimiter /\ \A p \in Proxies, i \in Ids : KeyLimited(p, i)

LEMMA LimitsAreNumbers ==
  ASSUME KeysTyped, NEW i \in Ids, Limited(i) PROVE key[i].limit \in Nat
BY KeysAssumption DEF KeysTyped, Row, Limited

\* One more pass, let through because the list is short, breaks no window.
LEMMA OneMore ==
  ASSUME NEW t \in Times, NEW P \in Passes, NEW R \in Passes, NEW e, e.at = t,
         NEW limit \in Nat, Counted(P, R, t), Remembered(P, R, t), Kept(P, limit),
         Cardinality(InWindow(R, t)) < limit
  PROVE  Kept(P \cup {e}, limit)
<1> SUFFICES ASSUME NEW start \in Times
             PROVE  Cardinality(During(P \cup {e}, start)) <= limit
  BY DEF Kept
<1>0. start \in Nat /\ t \in Nat /\ Window \in Nat
  BY KeysAssumption DEF Times
<1>1. CASE t \notin start .. start + Window
  <2>1. During(P \cup {e}, start) = During(P, start)
    BY <1>1 DEF During
  <2>2. QED BY <2>1 DEF Kept
<1>2. CASE t \in start .. start + Window
  <2>1. \A s \in P : s.at \in Nat
    BY DEF Passes, Times
  <2>2. During(P, start) \in SUBSET InWindow(R, t)
    BY <1>0, <1>2, <2>1 DEF During, InWindow, Remembered
  <2>3. InWindow(R, t) \in SUBSET P
    BY DEF InWindow, Counted
  <2>4. IsFiniteSet(InWindow(R, t))
    BY <2>3, FS_Subset DEF Counted
  <2>5. /\ IsFiniteSet(During(P, start))
        /\ Cardinality(During(P, start)) <= Cardinality(InWindow(R, t))
    BY <2>2, <2>4, FS_Subset
  <2>6. Cardinality(During(P, start)) \in Nat /\ Cardinality(InWindow(R, t)) \in Nat
    BY <2>4, <2>5, FS_CardinalityType
  <2>7. During(P \cup {e}, start) = During(P, start) \cup {e}
    BY <1>2 DEF During
  <2> DEFINE D == During(P, start)
             n == Cardinality(D)
             m == Cardinality(InWindow(R, t))
  <2>8. Cardinality(D \cup {e}) = IF e \in D THEN n ELSE n + 1
    <3> HIDE DEF D
    <3>1. IsFiniteSet(D)
      BY <2>5 DEF D
    <3>2. QED BY <3>1, FS_AddElement
  <2>9. n \in Nat /\ m \in Nat /\ n <= m /\ m < limit
    BY <2>5, <2>6
  <2> HIDE DEF n, m
  <2>10. (IF e \in D THEN n ELSE n + 1) <= limit
    BY <2>9
  <2>11. QED BY <2>7, <2>8, <2>10
<1>3. QED BY <1>1, <1>2

\* A key that nobody used is within any limit.
LEMMA UnusedKept == ASSUME NEW limit \in Nat PROVE Kept({}, limit)
<1>1. \A start \in Times : During({}, start) = {}
  BY DEF During
<1>2. QED BY <1>1, FS_EmptySet DEF Kept

\* A row that is there stays, and so does its limit.
LEMMA LimitStays ==
  ASSUME KeyInv, KeyStep, NEW i \in Ids, key[i].state # "absent"
  PROVE  key'[i].state # "absent" /\ key'[i].limit = key[i].limit
<1>1. CASE UNCHANGED keyVars
  BY <1>1 DEF keyVars
<1>2. ASSUME NEW j \in Ids, Created(j)
      PROVE  key'[i] = key[i]
  BY <1>2 DEF Created, KeyInv, KeysTyped
<1>3. ASSUME NEW j \in Ids, SetRevoked(j)
      PROVE  key'[i].state # "absent" /\ key'[i].limit = key[i].limit
  <2>1. CASE j # i
    BY <1>3, <2>1, Revocation DEF KeyInv
  <2>2. CASE j = i
    <3>1. key'[i] = [state |-> "revoked", tools |-> key[i].tools,
                     limit |-> key[i].limit, expiresAt |-> key[i].expiresAt]
      BY <1>3, <2>2, Revocation DEF KeyInv
    <3>2. QED BY <3>1
  <2>3. QED BY <2>1, <2>2
<1>4. ASSUME NEW a \in Admins, NEW j \in Ids, RotationEnded(a, j)
      PROVE  key'[i] = key[i]
  BY <1>4 DEF RotationEnded, KeyInv, KeysTyped
<1> QED  BY <1>1, <1>2, <1>3, <1>4 DEF KeyStep, Revoked, RotationBegun, RotationLost

\* Nothing but time and keys moves: what the limiter knows stays true.
LEMMA LimitedKept ==
  ASSUME KeyInv, KeyInv', KeyStep, LimiterTyped, NEW p \in Proxies, NEW i \in Ids,
         KeyLimited(p, i), passed'[p][i] = passed[p][i], recent'[p][i] = recent[p][i],
         now' \in Times, now' >= now
  PROVE  KeyLimited(p, i)'
<1> DEFINE P == passed[p][i]
           R == recent[p][i]
<1>0. /\ now \in Nat /\ now' \in Nat /\ Window \in Nat /\ P \in Passes /\ R \in Passes
      /\ \A s \in P : s.at \in Nat
  BY KeysAssumption DEF LimiterTyped, Times, Passes
<1>1. Counted(P, R, now)'
  BY <1>0 DEF KeyLimited, Counted
<1>2. key'[i].state = "absent" => P' = {}
  BY LimitStays DEF KeyLimited
<1>3. ASSUME Limited(i)'
      PROVE  Remembered(P, R, now)' /\ Kept(P', key'[i].limit)
  <2>1. CASE key[i].state = "absent"
    <3>1. P' = {} /\ key'[i].limit \in Nat
      BY <1>3, <2>1, LimitsAreNumbers, KeysAssumption
         DEF KeyInv, KeysTyped, Row, Limited, KeyLimited
    <3>2. QED BY <3>1, UnusedKept DEF Remembered
  <2>2. CASE key[i].state # "absent"
    <3>1. Limited(i) /\ key'[i].limit = key[i].limit
      BY <1>3, <2>2, LimitStays DEF Limited
    <3>2. Remembered(P, R, now)'
      BY <1>0, <3>1 DEF KeyLimited, Remembered
    <3>3. QED BY <3>1, <3>2 DEF KeyLimited
  <2>3. QED BY <2>1, <2>2
<1>4. QED BY <1>1, <1>2, <1>3 DEF KeyLimited

LEMMA LimitStep ==
  ASSUME KeyInv, NewCalls, LimiterInv, NEW c \in Calls, Limit(c), KeyInv', KeyStep
  PROVE  LimiterInv'
<1>0. PICK p \in Proxies, i \in Ids :
        p = call[c].proxy /\ i = call[c].id /\ key[i].state # "absent"
  BY DEF Limit, LimiterInv, AtLimiter
<1> DEFINE P == passed[p][i]
           R == recent[p][i]
           times == InWindow(R, now)
<1>1. /\ KeyLimited(p, i) /\ now \in Times
      /\ recent \in [Proxies -> [Ids -> Passes]] /\ passed \in [Proxies -> [Ids -> Passes]]
  BY DEF LimiterInv, LimiterTyped
<1>2. /\ P \in Passes /\ R \in Passes /\ times \in Passes /\ times \subseteq R
      /\ Counted(P, R, now)
  BY <1>1 DEF Passes, InWindow, KeyLimited
<1>3. now' = now /\ key' = key /\ now \in Nat /\ Window \in Nat
  BY <1>1, KeysAssumption DEF Limit, Times
<1>4. Stamp(c) \in [call: Calls, at: Times] /\ Stamp(c).at = now
  BY <1>1 DEF Stamp
<1>5. PICK Q \in {P, P \cup {Stamp(c)}}, T \in Passes, pc \in {"passed", "denied"} :
        /\ passed' = [passed EXCEPT ![p][i] = Q]
        /\ recent' = [recent EXCEPT ![p][i] = T]
        /\ call' = [call EXCEPT ![c].pc = pc]
        /\ T \subseteq Q
        /\ Limited(i) => \/ Q = P /\ T = times
                         \/ /\ Q = P \cup {Stamp(c)} /\ T = times \cup {Stamp(c)}
                            /\ Cardinality(times) < key[i].limit
  <2>1. CASE ~Limited(i) /\ Pass(c, R)
    <3>1. /\ passed' = [passed EXCEPT ![p][i] = P \cup {Stamp(c)}]
          /\ recent' = [recent EXCEPT ![p][i] = R]
          /\ call' = [call EXCEPT ![c].pc = "passed"]
      BY <1>0, <2>1 DEF Pass
    <3>2. R \subseteq P \cup {Stamp(c)}
      BY <1>2 DEF Counted
    <3>3. QED BY <1>2, <2>1, <3>1, <3>2
  <2>2. CASE Limited(i) /\ Cardinality(times) < key[i].limit /\ Pass(c, times \cup {Stamp(c)})
    <3>1. /\ passed' = [passed EXCEPT ![p][i] = P \cup {Stamp(c)}]
          /\ recent' = [recent EXCEPT ![p][i] = times \cup {Stamp(c)}]
          /\ call' = [call EXCEPT ![c].pc = "passed"]
      BY <1>0, <2>2 DEF Pass
    <3>2. times \cup {Stamp(c)} \subseteq P \cup {Stamp(c)} /\ times \cup {Stamp(c)} \in Passes
      BY <1>2, <1>4 DEF Counted, Passes
    <3>3. QED BY <2>2, <3>1, <3>2
  <2>3. CASE /\ Limited(i)
             /\ recent' = [recent EXCEPT ![p][i] = times]
             /\ call' = [call EXCEPT ![c].pc = "denied"]
             /\ UNCHANGED passed
    <3>1. passed' = [passed EXCEPT ![p][i] = P]
      BY <1>1, <2>3
    <3>2. times \subseteq P
      BY <1>2 DEF Counted
    <3>3. QED BY <1>2, <2>3, <3>1, <3>2
  <2>4. QED BY <1>0, <2>1, <2>2, <2>3 DEF Limit
<1>6. Q \in Passes
  BY <1>2, <1>4, <1>5 DEF Passes
<1>7. LimiterTyped'
  BY <1>1, <1>3, <1>5, <1>6 DEF LimiterTyped
<1>8. AtLimiter'
  BY <1>3, <1>5 DEF LimiterInv, AtLimiter, NewCalls
<1>9. KeyLimited(p, i)'
  <2>1. passed'[p][i] = Q /\ recent'[p][i] = T
    BY <1>1, <1>5
  <2>2. Counted(Q, T, now)
    <3>1. IsFiniteSet(P \cup {Stamp(c)})
      BY <1>2, FS_AddElement DEF Counted
    <3>2. \A s \in P : s.at <= now
      BY <1>2 DEF Counted
    <3>3. IsFiniteSet(P)
      BY <1>2 DEF Counted
    <3> HIDE DEF P, R, times
    <3>4. IsFiniteSet(Q)
      BY <1>5, <3>1, <3>3
    <3>5. \A s \in Q : s.at <= now
      BY <1>3, <1>4, <1>5, <3>2
    <3>6. QED BY <1>5, <3>4, <3>5 DEF Counted
  <2>3. ASSUME Limited(i)
        PROVE  Remembered(Q, T, now) /\ Kept(Q, key[i].limit)
    <3>1. Remembered(P, R, now) /\ Kept(P, key[i].limit) /\ key[i].limit \in Nat
      BY <1>1, <2>3, LimitsAreNumbers DEF KeyLimited, KeyInv
    <3>2. CASE Q = P /\ T = times
      BY <3>1, <3>2 DEF Remembered, InWindow
    <3>3. CASE /\ Q = P \cup {Stamp(c)} /\ T = times \cup {Stamp(c)}
               /\ Cardinality(times) < key[i].limit
      <4>1. Remembered(Q, T, now)
        BY <3>1, <3>3 DEF Remembered, InWindow
      <4>2. Kept(Q, key[i].limit)
        BY <1>1, <1>2, <1>4, <3>1, <3>3, OneMore
      <4>3. QED BY <4>1, <4>2
    <3>4. QED BY <1>5, <2>3, <3>2, <3>3
  <2> HIDE DEF P, R, times
  <2>4. QED BY <1>0, <1>3, <2>1, <2>2, <2>3 DEF KeyLimited, Limited
<1>10. ASSUME NEW q \in Proxies, NEW j \in Ids, <<q, j>> # <<p, i>>
       PROVE  KeyLimited(q, j)'
  <2>1. passed'[q][j] = passed[q][j] /\ recent'[q][j] = recent[q][j]
    BY <1>1, <1>5, <1>10
  <2>2. QED BY <1>3, <2>1 DEF LimiterInv, KeyLimited, Limited
<1>11. QED BY <1>7, <1>8, <1>9, <1>10 DEF LimiterInv

LEMMA LimiterStep ==
  ASSUME KeyInv, NewCalls, LimiterInv, [Next]_vars, KeyInv'
  PROVE  LimiterInv'
<1>0. KeyStep /\ now \in Nat /\ now \in Times /\ MaxTime \in Nat
  BY StepsOfKeys, KeysAssumption DEF LimiterInv, LimiterTyped, Times
<1>1. CASE UNCHANGED <<recent, passed, call>> /\ now' \in Times /\ now' >= now
  <2>1. \A p \in Proxies, i \in Ids : KeyLimited(p, i)'
    BY <1>0, <1>1, LimitedKept DEF LimiterInv
  <2>2. AtLimiter'
    BY <1>0, <1>1, LimitStays DEF LimiterInv, AtLimiter
  <2>3. QED BY <1>1, <2>1, <2>2 DEF LimiterInv, LimiterTyped
<1>2. ASSUME NEW c \in Calls, NEW p \in Proxies, NEW i \in Ids, NEW tool \in Tools,
             Arrive(c, p, i, tool)
      PROVE  LimiterInv'
  <2>1. UNCHANGED <<now, key, recent, passed>>
    BY <1>2 DEF Arrive
  <2>2. AtLimiter'
    <3> SUFFICES ASSUME NEW d \in Calls, call'[d].pc = "limiter"
                 PROVE  call'[d].proxy \in Proxies /\ call'[d].id \in Ids
                        /\ key[call'[d].id].state # "absent"
      BY <2>1 DEF AtLimiter
    <3>1. CASE d = c
      <4>1. call'[c] = [pc |-> "limiter", proxy |-> p, id |-> i] /\ key[i].state = "live"
        BY <1>2, <3>1 DEF Arrive, Admissible, Valid, NewCalls
      <4>2. QED BY <3>1, <4>1
    <3>2. CASE d # c
      BY <1>2, <3>2 DEF Arrive, NewCalls, LimiterInv, AtLimiter
    <3>3. QED BY <3>1, <3>2
  <2>3. QED BY <2>1, <2>2 DEF LimiterInv, LimiterTyped, KeyLimited, Limited
<1>3. ASSUME NEW p \in Proxies, Restart(p)
      PROVE  LimiterInv'
  <2>1. UNCHANGED <<now, key>>
    BY <1>3 DEF Restart
  <2>2. LimiterTyped'
    BY <1>3, <2>1 DEF Restart, LimiterInv, LimiterTyped, Passes
  <2>3. AtLimiter'
    BY <1>3, <2>1 DEF Restart, LimiterInv, AtLimiter, NewCalls
  <2>4. ASSUME NEW q \in Proxies, NEW i \in Ids
        PROVE  KeyLimited(q, i)'
    <3>1. CASE q = p
      <4>1. passed'[q][i] = {} /\ recent'[q][i] = {}
        BY <1>3, <3>1 DEF Restart, LimiterInv, LimiterTyped
      <4>2. Limited(i) => key[i].limit \in Nat
        BY LimitsAreNumbers DEF KeyInv
      <4>3. QED BY <2>1, <4>1, <4>2, UnusedKept, FS_EmptySet
                   DEF KeyLimited, Counted, Remembered, Limited
    <3>2. CASE q # p
      <4>1. passed'[q] = passed[q] /\ recent'[q] = recent[q]
        BY <1>3, <3>2 DEF Restart, LimiterInv, LimiterTyped
      <4>2. QED BY <2>1, <4>1 DEF LimiterInv, KeyLimited, Limited
    <3>3. QED BY <3>1, <3>2
  <2>5. QED BY <2>2, <2>3, <2>4 DEF LimiterInv
<1>4. CASE UNCHANGED vars
  BY <1>0, <1>1, <1>4 DEF vars
<1>5. CASE Tick
  <2>1. now' = now + 1 /\ now < MaxTime /\ UNCHANGED <<recent, passed, call>>
    BY <1>5 DEF Tick
  <2>2. now' \in Times /\ now' >= now
    BY <1>0, <2>1 DEF Times
  <2>3. QED BY <1>1, <2>1, <2>2
<1>6. ASSUME NEW i \in Ids, Create(i) \/ Revoke(i)
      PROVE  LimiterInv'
  BY <1>0, <1>1, <1>6 DEF Create, Revoke
<1>7. ASSUME NEW a \in Admins, NEW i \in Ids, RotateRevoke(a, i) \/ RotateCreate(a, i)
      PROVE  LimiterInv'
  BY <1>0, <1>1, <1>7 DEF RotateRevoke, RotateCreate
<1>8. ASSUME NEW a \in Admins, CrashAdmin(a)
      PROVE  LimiterInv'
  BY <1>0, <1>1, <1>8 DEF CrashAdmin
<1>9. ASSUME NEW c \in Calls, Limit(c)
      PROVE  LimiterInv'
  BY <1>0, <1>9, LimitStep
<1>10. QED BY <1>2, <1>3, <1>4, <1>5, <1>6, <1>7, <1>8, <1>9 DEF Next

LEMMA LimiterInit == Init => LimiterInv
<1> SUFFICES ASSUME Init PROVE LimiterInv
  OBVIOUS
<1>1. LimiterTyped
  BY KeysAssumption DEF Init, LimiterTyped, Passes, Times
<1>2. AtLimiter
  BY DEF Init, NewCall, AtLimiter
<1>3. ASSUME NEW p \in Proxies, NEW i \in Ids
      PROVE  KeyLimited(p, i)
  <2>1. passed[p][i] = {} /\ recent[p][i] = {} /\ ~Limited(i)
    BY DEF Init, AbsentKey, Limited
  <2>2. QED BY <2>1, FS_EmptySet DEF KeyLimited, Counted
<1>4. QED BY <1>1, <1>2, <1>3 DEF LimiterInv

LEMMA LimiterCorrect == Spec => [](KeyInv /\ NewCalls /\ LimiterInv)
<1>1. KeyInv /\ NewCalls /\ LimiterInv /\ [Next]_vars => KeyInv' /\ NewCalls' /\ LimiterInv'
  BY StepsOfKeys, KeyInvStep, CallStep, LimiterStep
<1> QED  BY KeyInvInit, NewCallsInit, LimiterInit, <1>1, PTL DEF Spec

\* Keys, calls and the limiter's lists are type correct.
THEOREM KeysTypeCorrect == Spec => []TypeOK
<1>1. KeyInv /\ NewCalls /\ LimiterInv => TypeOK
  BY DEF KeyInv, KeysTyped, NewCalls, LimiterInv, LimiterTyped, Passes, TypeOK
<1> QED  BY LimiterCorrect, <1>1, PTL

\* No window of any start holds more passes of a key than its limit.
THEOREM RateLimits == Spec => []RateBounded
<1>1. LimiterInv => RateBounded
  BY DEF LimiterInv, KeyLimited, Kept, During, RateBounded
<1> QED  BY LimiterCorrect, <1>1, PTL
==========================================================================
