----------------------- MODULE AccountSessionsProofs -----------------------
(***************************************************************************)
(* Proofs about AccountSessions.                                           *)
(***************************************************************************)
EXTENDS AccountSessions, SequenceTheorems, FiniteSetTheorems, WellFoundedInduction, TLAPS

-----------------------------------------------------------------------------
(* The list of accounts.                                                   *)

\* splice takes out the element at its position.
LEMMA SpliceElements ==
    ASSUME NEW s \in Seq(User), NEW k \in 1..Len(s)
    PROVE  LET r == RemoveAt(s, k)
           IN  /\ r \in Seq(User) /\ Len(r) = Len(s) - 1
               /\ \A j \in 1..(Len(s) - 1) : r[j] = IF j < k THEN s[j] ELSE s[j + 1]
  <1> DEFINE a == SubSeq(s, 1, k - 1)
             b == SubSeq(s, k + 1, Len(s))
  <1>1. Len(s) \in Nat
    BY LenProperties
  <1>2. a \in Seq(User) /\ Len(a) = k - 1 /\ \A j \in 1..(k - 1) : a[j] = s[j]
    BY <1>1, SubSeqProperties
  <1>3. b \in Seq(User) /\ Len(b) = Len(s) - k /\ \A j \in 1..(Len(s) - k) : b[j] = s[k + j]
    BY <1>1, SubSeqProperties
  <1> HIDE DEF a, b
  <1>4. RemoveAt(s, k) = a \o b
    BY DEF RemoveAt, a, b
  <1>5. /\ a \o b \in Seq(User) /\ Len(a \o b) = Len(s) - 1
        /\ \A j \in 1..(Len(s) - 1) : (a \o b)[j] = IF j <= k - 1 THEN a[j] ELSE b[j - (k - 1)]
    <2>1. /\ a \o b \in Seq(User) /\ Len(a \o b) = Len(a) + Len(b)
          /\ \A j \in 1..(Len(a) + Len(b)) :
               (a \o b)[j] = IF j <= Len(a) THEN a[j] ELSE b[j - Len(a)]
      BY <1>2, <1>3, ConcatProperties
    <2>2. Len(a) + Len(b) = Len(s) - 1
      BY <1>1, <1>2, <1>3
    <2>3. QED
      BY <1>2, <2>1, <2>2
  <1>6. ASSUME NEW j \in 1..(Len(s) - 1)
        PROVE  (a \o b)[j] = IF j < k THEN s[j] ELSE s[j + 1]
    <2>1. CASE j < k
      BY <1>1, <1>2, <1>5, <2>1
    <2>2. CASE ~(j < k)
      <3>1. j - (k - 1) \in 1..(Len(s) - k) /\ k + (j - (k - 1)) = j + 1
        BY <1>1, <2>2
      <3>2. QED
        BY <1>1, <1>3, <1>5, <2>2, <3>1
    <2>3. QED
      BY <2>1, <2>2
  <1>7. QED
    BY <1>4, <1>5, <1>6

\* Taking u out of a list that names nobody twice.
LEMMA OthersList ==
    ASSUME NEW d, d.others \in Seq(User), IsInjective(d.others), NEW u
    PROVE  /\ Others(d, u) \in Seq(User) /\ IsInjective(Others(d, u))
           /\ ToSet(Others(d, u)) = ToSet(d.others) \ {u}
  <1> DEFINE s == d.others
  <1>0. s \in Seq(User) /\ IsInjective(s) /\ Len(s) \in Nat /\ DOMAIN s = 1..Len(s)
    BY LenProperties
  <1> HIDE DEF s
  <1>1. CASE u \notin ToSet(s)
    BY <1>0, <1>1 DEF Others, s
  <1>2. CASE u \in ToSet(s)
    <2> DEFINE k == CHOOSE i \in DOMAIN s : s[i] = u
               r == RemoveAt(s, k)
    <2>1. k \in DOMAIN s /\ s[k] = u
      BY <1>2 DEF ToSet
    <2>2. Others(d, u) = r
      BY <1>2 DEF Others, s
    <2> HIDE DEF k
    <2>3. /\ r \in Seq(User) /\ Len(r) = Len(s) - 1 /\ DOMAIN r = 1..(Len(s) - 1)
          /\ \A j \in 1..(Len(s) - 1) : r[j] = IF j < k THEN s[j] ELSE s[j + 1]
      BY <1>0, <2>1, SpliceElements, LenProperties
    <2> HIDE DEF r
    <2>4. \A i, j \in 1..Len(s) : s[i] = s[j] => i = j
      BY <1>0 DEF IsInjective
    <2>5. ASSUME NEW i \in DOMAIN r, NEW j \in DOMAIN r, r[i] = r[j]
          PROVE  i = j
      BY <1>0, <2>1, <2>3, <2>4, <2>5
    <2>6. ASSUME NEW i \in DOMAIN r
          PROVE  r[i] \in ToSet(s) \ {u}
      <3>1. CASE i < k
        BY <1>0, <2>1, <2>3, <2>4, <3>1 DEF ToSet
      <3>2. CASE ~(i < k)
        <4>1. i + 1 \in DOMAIN s /\ r[i] = s[i + 1] /\ i + 1 # k
          BY <1>0, <2>1, <2>3, <3>2
        <4>2. s[i + 1] # u
          BY <1>0, <2>1, <2>4, <4>1
        <4>3. QED
          BY <4>1, <4>2 DEF ToSet
      <3>3. QED
        BY <3>1, <3>2
    <2>7. ASSUME NEW i \in DOMAIN s, s[i] # u
          PROVE  \E j \in DOMAIN r : r[j] = s[i]
      <3>1. CASE i < k
        BY <1>0, <2>1, <2>3, <3>1
      <3>2. CASE ~(i < k)
        <4>1. i - 1 \in DOMAIN r /\ ~(i - 1 < k) /\ (i - 1) + 1 = i
          BY <1>0, <2>1, <2>3, <2>7, <3>2
        <4>2. QED
          BY <2>3, <4>1
      <3>3. QED
        BY <3>1, <3>2
    <2>8. ToSet(r) = ToSet(s) \ {u}
      BY <2>6, <2>7 DEF ToSet
    <2>9. QED
      BY <2>2, <2>3, <2>5, <2>8 DEF IsInjective, s
  <1>3. QED
    BY <1>1, <1>2

\* Appending an account that is not in the list.
LEMMA AppendList ==
    ASSUME NEW s \in Seq(User), IsInjective(s), NEW x \in User, x \notin ToSet(s)
    PROVE  /\ Append(s, x) \in Seq(User) /\ IsInjective(Append(s, x))
           /\ ToSet(Append(s, x)) = ToSet(s) \cup {x}
  <1> DEFINE r == Append(s, x)
  <1>0. Len(s) \in Nat /\ DOMAIN s = 1..Len(s)
    BY LenProperties
  <1>1. /\ r \in Seq(User) /\ DOMAIN r = 1..(Len(s) + 1)
        /\ \A i \in 1..Len(s) : r[i] = s[i]
        /\ r[Len(s) + 1] = x
    BY <1>0, AppendProperties, LenProperties
  <1> HIDE DEF r
  <1>2. \A i \in 1..Len(s) : s[i] # x
    BY <1>0 DEF ToSet
  <1>3. \A i, j \in 1..Len(s) : s[i] = s[j] => i = j
    BY <1>0 DEF IsInjective
  <1>4. \A i, j \in DOMAIN r : r[i] = r[j] => i = j
    BY <1>0, <1>1, <1>2, <1>3
  <1>5. ToSet(r) \subseteq ToSet(s) \cup {x}
    BY <1>0, <1>1 DEF ToSet
  <1>6. ToSet(s) \cup {x} \subseteq ToSet(r)
    <2>1. x \in ToSet(r)
      <3>1. Len(s) + 1 \in DOMAIN r
        BY <1>0, <1>1
      <3>2. QED
        BY <1>1, <3>1 DEF ToSet
    <2>2. ASSUME NEW i \in DOMAIN s
          PROVE  s[i] \in ToSet(r)
      <3>1. i \in DOMAIN r /\ r[i] = s[i]
        BY <1>0, <1>1
      <3>2. QED
        BY <3>1 DEF ToSet
    <2>3. QED
      BY <2>1, <2>2 DEF ToSet
  <1>7. QED
    BY <1>1, <1>4, <1>5, <1>6 DEF IsInjective, r

\* The account used last, and the rest.
LEMMA LastList ==
    ASSUME NEW s \in Seq(User), IsInjective(s), Len(s) > 0
    PROVE  /\ Front(s) \in Seq(User) /\ IsInjective(Front(s)) /\ Last(s) \in User
           /\ Last(s) \notin ToSet(Front(s)) /\ ToSet(s) = ToSet(Front(s)) \cup {Last(s)}
  <1> DEFINE r == Front(s)
             n == Len(s)
  <1>0. n \in Nat /\ n > 0 /\ DOMAIN s = 1..n /\ Last(s) = s[n] /\ \A i \in 1..n : s[i] \in User
    BY LenProperties, ElementOfSeq DEF Last
  <1>1. /\ r \in Seq(User) /\ DOMAIN r = 1..(n - 1)
        /\ \A i \in 1..(n - 1) : r[i] = s[i]
    BY <1>0, SubSeqProperties, LenProperties DEF Front
  <1> HIDE DEF r, n
  <1>3. \A i, j \in 1..n : s[i] = s[j] => i = j
    BY <1>0 DEF IsInjective
  <1>4. \A i, j \in DOMAIN r : r[i] = r[j] => i = j
    BY <1>0, <1>1, <1>3
  <1>5. Last(s) \notin ToSet(r)
    BY <1>0, <1>1, <1>3 DEF ToSet
  <1>6. ToSet(s) = ToSet(r) \cup {Last(s)}
    <2>1. \A i \in DOMAIN s : i = n \/ i \in DOMAIN r
      BY <1>0, <1>1
    <2>2. \A i \in DOMAIN r : i \in DOMAIN s
      BY <1>0, <1>1
    <2>3. QED
      BY <1>0, <1>1, <2>1, <2>2 DEF ToSet
  <1>7. QED
    BY <1>0, <1>1, <1>4, <1>5, <1>6 DEF IsInjective, r

-----------------------------------------------------------------------------
(* What the changes of a copy make of it.                                  *)

DataRecord == [auth : BOOLEAN, active : User \cup {NoUser}, others : Seq(User),
               acct : User \cup {NoUser}, time : 0..MaxTime, intent : BOOLEAN,
               mfa : MfaUser \cup {NoUser}, dev : User \cup {NoUser}]

Consistent(d) ==
    /\ d.acct = d.active
    /\ d.auth => d.active # NoUser
    /\ d.active = NoUser => d.others = <<>>
    /\ IsInjective(d.others) /\ d.active \notin ToSet(d.others)

LEMMA SessionDataIs == SessionData = {d \in DataRecord : Consistent(d)}
  BY DEF SessionData, DataRecord, Consistent

LEMMA DataFields ==
    ASSUME NEW d \in SessionData
    PROVE  /\ d \in DataRecord /\ Consistent(d)
           /\ d.others \in Seq(User) /\ IsInjective(d.others) /\ ToSet(d.others) \subseteq User
           /\ d.active \in User \cup {NoUser} /\ d.acct = d.active
           /\ d.active = NoUser => d.others = <<>>
           /\ d.active \notin ToSet(d.others)
  <1>1. d \in DataRecord /\ Consistent(d)
    BY SessionDataIs
  <1>2. d.others \in Seq(User)
    BY <1>1 DEF DataRecord
  <1>3. ToSet(d.others) \subseteq User
    BY <1>2, ElementOfSeq, LenProperties DEF ToSet
  <1>4. d.active \in User \cup {NoUser}
    BY <1>1 DEF DataRecord
  <1>5. QED
    BY <1>1, <1>2, <1>3, <1>4 DEF Consistent

LEMMA EmptyList ==
    <<>> \in Seq(User) /\ IsInjective(<<>>) /\ ToSet(<<>>) = {}
  <1>1. <<>> \in Seq(User) /\ Len(<<>>) = 0 /\ DOMAIN <<>> = {}
    BY EmptySeq, LenProperties
  <1>2. QED
    BY <1>1 DEF IsInjective, ToSet

LEMMA EmptyData == Empty \in SessionData /\ Accounts(Empty) = {} /\ Empty.acct = NoUser
  <1>1. Empty \in DataRecord
    BY EmptyList, SessionAssumption DEF Empty, DataRecord
  <1>2. Consistent(Empty)
    BY EmptyList DEF Consistent, Empty
  <1>3. Accounts(Empty) = {}
    BY EmptyList DEF Accounts, Empty
  <1>4. QED
    BY <1>1, <1>2, <1>3, SessionDataIs DEF Empty

\* A copy whose active account is u and whose list is l.
LEMMA BuiltData ==
    ASSUME NEW u \in User, NEW l \in Seq(User), IsInjective(l), u \notin ToSet(l),
           NEW e \in DataRecord, e.active = u, e.acct = u, e.others = l
    PROVE  /\ e \in SessionData /\ e.acct = u
           /\ Accounts(e) = {u} \cup ToSet(l)
  <1>1. u # NoUser
    BY SessionAssumption
  <1>2. Consistent(e)
    BY <1>1 DEF Consistent
  <1>3. NoUser \notin ToSet(l)
    BY ElementOfSeq, LenProperties, SessionAssumption DEF ToSet
  <1>4. QED
    BY <1>1, <1>2, <1>3, SessionDataIs DEF Accounts

LEMMA SetAuthenticatedData ==
    ASSUME NEW d \in SessionData, NEW u \in User, now \in Nat, now < MaxTime
    PROVE  /\ SetAuthenticated(d, u) \in SessionData
           /\ SetAuthenticated(d, u).acct = u
           /\ Accounts(SetAuthenticated(d, u)) \subseteq Accounts(d) \cup {u}
  <1> DEFINE kept == Others(d, u)
             rest == IF d.active \in {NoUser, u} THEN kept ELSE Append(kept, d.active)
             l == IF MultiAccount THEN rest ELSE <<>>
             e == SetAuthenticated(d, u)
  <1>1. kept \in Seq(User) /\ IsInjective(kept) /\ ToSet(kept) = ToSet(d.others) \ {u}
    BY DataFields, OthersList
  <1>2. /\ rest \in Seq(User) /\ IsInjective(rest) /\ u \notin ToSet(rest)
        /\ ToSet(rest) \subseteq Accounts(d)
    <2>0. NoUser \notin ToSet(d.others)
      BY DataFields, SessionAssumption
    <2>1. CASE d.active \in {NoUser, u}
      BY <1>1, <2>0, <2>1 DEF Accounts
    <2>2. CASE d.active \notin {NoUser, u}
      <3>1. d.active \in User /\ d.active \notin ToSet(kept)
        BY <1>1, <2>2, DataFields
      <3>2. /\ Append(kept, d.active) \in Seq(User) /\ IsInjective(Append(kept, d.active))
            /\ ToSet(Append(kept, d.active)) = ToSet(kept) \cup {d.active}
        BY <1>1, <3>1, AppendList
      <3>3. QED
        BY <1>1, <2>0, <2>2, <3>2 DEF Accounts
    <2>3. QED
      BY <2>1, <2>2
  <1> HIDE DEF kept, rest
  <1>3. l \in Seq(User) /\ IsInjective(l) /\ u \notin ToSet(l) /\ ToSet(l) \subseteq Accounts(d)
    BY <1>2, EmptyList
  <1>4. e = [d EXCEPT !.auth = TRUE, !.active = u, !.acct = u, !.time = now + 1, !.others = l]
    BY DEF SetAuthenticated, kept, rest
  <1> HIDE DEF l, e
  <1>5. now + 1 \in 0..MaxTime
    BY SessionAssumption
  <1>6. d \in DataRecord
    BY DataFields
  <1>7. e \in DataRecord /\ e.active = u /\ e.acct = u /\ e.others = l
    BY <1>3, <1>4, <1>5, <1>6 DEF DataRecord
  <1>8. QED
    BY <1>3, <1>7, BuiltData DEF e

LEMMA AddAuthenticatedData ==
    ASSUME NEW d \in SessionData, NEW u \in User
    PROVE  /\ AddAuthenticatedUser(d, u) \in SessionData
           /\ CanAdd(d, u) => AddAuthenticatedUser(d, u).acct = u
           /\ Accounts(AddAuthenticatedUser(d, u)) \subseteq Accounts(d) \cup {u}
  <1>1. CASE ~CanAdd(d, u)
    BY <1>1 DEF AddAuthenticatedUser
  <1>2. CASE CanAdd(d, u)
    <2> DEFINE l == IF d.active = NoUser THEN <<>> ELSE Append(d.others, d.active)
               e == AddAuthenticatedUser(d, u)
    <2>1. l \in Seq(User) /\ IsInjective(l) /\ u \notin ToSet(l) /\ ToSet(l) \subseteq Accounts(d)
      <3>1. CASE d.active = NoUser
        BY <3>1, EmptyList
      <3>2. CASE d.active # NoUser
        <4>1. u \notin Accounts(d) /\ u # NoUser
          BY <1>2, <3>2, SessionAssumption DEF CanAdd
        <4>2. /\ Append(d.others, d.active) \in Seq(User) /\ IsInjective(Append(d.others, d.active))
              /\ ToSet(Append(d.others, d.active)) = ToSet(d.others) \cup {d.active}
          BY <3>2, DataFields, AppendList
        <4>3. NoUser \notin ToSet(d.others)
          BY DataFields, SessionAssumption
        <4>4. QED
          BY <3>2, <4>1, <4>2, <4>3 DEF Accounts
      <3>3. QED
        BY <3>1, <3>2
    <2>2. e = [d EXCEPT !.active = u, !.acct = u, !.others = l]
      BY <1>2 DEF AddAuthenticatedUser
    <2> HIDE DEF l, e
    <2>3. d \in DataRecord
      BY DataFields
    <2>4. e \in DataRecord /\ e.active = u /\ e.acct = u /\ e.others = l
      BY <2>1, <2>2, <2>3 DEF DataRecord
    <2>5. QED
      BY <2>1, <2>4, BuiltData DEF e
  <1>3. QED
    BY <1>1, <1>2

LEMMA SwitchUserData ==
    ASSUME NEW d \in SessionData, NEW u \in ToSet(d.others)
    PROVE  /\ SwitchUser(d, u) \in SessionData
           /\ SwitchUser(d, u).acct = u
           /\ Accounts(SwitchUser(d, u)) \subseteq Accounts(d)
  <1> DEFINE kept == Others(d, u)
             l == Append(kept, d.active)
             e == SwitchUser(d, u)
  <1>1. kept \in Seq(User) /\ IsInjective(kept) /\ ToSet(kept) = ToSet(d.others) \ {u}
    BY DataFields, OthersList
  <1>2. d.active \in User /\ d.active # u /\ u \in User
    BY DataFields, EmptyList
  <1>3. l \in Seq(User) /\ IsInjective(l) /\ ToSet(l) = (ToSet(d.others) \ {u}) \cup {d.active}
    BY <1>1, <1>2, DataFields, AppendList
  <1>4. e = [d EXCEPT !.active = u, !.acct = u, !.others = l]
    BY DEF SwitchUser
  <1> HIDE DEF kept, l, e
  <1>5. d \in DataRecord
    BY DataFields
  <1>6. e \in DataRecord /\ e.active = u /\ e.acct = u /\ e.others = l
    BY <1>2, <1>3, <1>4, <1>5 DEF DataRecord
  <1>7. e \in SessionData /\ e.acct = u /\ Accounts(e) = {u} \cup ToSet(l)
    BY <1>2, <1>3, <1>6, BuiltData
  <1>8. u # NoUser /\ d.active # NoUser
    BY <1>2, SessionAssumption
  <1>9. {u} \cup ToSet(l) \subseteq Accounts(d)
    <2>1. NoUser \notin ToSet(d.others)
      BY DataFields, SessionAssumption
    <2>2. QED
      BY <1>3, <1>8, <2>1 DEF Accounts
  <1>10. QED
    BY <1>7, <1>9 DEF e

LEMMA RemoveUserData ==
    ASSUME NEW d \in SessionData, NEW u \in Accounts(d), Len(d.others) > 0
    PROVE  /\ RemoveAuthenticatedUser(d, u) \in SessionData
           /\ Accounts(RemoveAuthenticatedUser(d, u)) \subseteq Accounts(d) \ {u}
  <1> DEFINE e == RemoveAuthenticatedUser(d, u)
  <1>0. d \in DataRecord /\ Consistent(d) /\ NoUser \notin ToSet(d.others)
    BY DataFields, SessionAssumption
  <1>1. CASE u # d.active
    <2> DEFINE l == Others(d, u)
    <2>1. l \in Seq(User) /\ IsInjective(l) /\ ToSet(l) = ToSet(d.others) \ {u}
      BY DataFields, OthersList
    <2>2. u \in ToSet(d.others)
      BY <1>1 DEF Accounts
    <2>3. d.active \in User
      BY <2>2, DataFields, EmptyList
    <2>4. e = [d EXCEPT !.others = l]
      BY <1>1 DEF RemoveAuthenticatedUser
    <2> HIDE DEF l, e
    <2>5. e \in DataRecord /\ e.active = d.active /\ e.acct = d.active /\ e.others = l
      BY <1>0, <2>1, <2>4, DataFields DEF DataRecord
    <2>6. e \in SessionData /\ Accounts(e) = {d.active} \cup ToSet(l)
      BY <2>1, <2>3, <2>5, BuiltData, DataFields
    <2>7. QED
      BY <1>0, <1>1, <2>1, <2>3, <2>6, SessionAssumption DEF e, Accounts
  <1>2. CASE u = d.active
    <2> DEFINE l == Front(d.others)
               x == Last(d.others)
    <2>1. /\ l \in Seq(User) /\ IsInjective(l) /\ x \in User
          /\ x \notin ToSet(l) /\ ToSet(d.others) = ToSet(l) \cup {x}
      BY DataFields, LastList
    <2>2. e = [d EXCEPT !.active = x, !.acct = x, !.others = l]
      BY <1>2 DEF RemoveAuthenticatedUser
    <2> HIDE DEF l, x, e
    <2>3. e \in DataRecord /\ e.active = x /\ e.acct = x /\ e.others = l
      BY <1>0, <2>1, <2>2 DEF DataRecord
    <2>4. e \in SessionData /\ Accounts(e) = {x} \cup ToSet(l)
      BY <2>1, <2>3, BuiltData
    <2>5. QED
      BY <1>0, <1>2, <2>1, <2>4, DataFields DEF e, Accounts
  <1>3. QED
    BY <1>1, <1>2

-----------------------------------------------------------------------------
(* The table of the ways to sign in.                                       *)

LEMMA WaysTable ==
    \A w \in WayName :
        /\ Ways[w].regen <=> w \in {"password", "code", "webauthn", "social", "socialTo", "oidc",
                                "oidcSocial", "device"}
        /\ Ways[w].limit = "after" <=> w \in {"password", "oidc", "oidcSocial", "device"}
        /\ Ways[w].limit = "before" <=> w = "continue"
        /\ Ways[w].limit = "never" <=> w \notin {"password", "oidc", "oidcSocial", "device", "continue"}
        /\ Ways[w].put = "add" <=> w \in {"another", "webauthn", "socialTo"}
        /\ w \in Pending <=> w \in {"pending", "newDevice"}
  <1>1. \A w \in WayName :
        /\ Ways[w].put = "add" <=> w \in {"another", "webauthn", "socialTo"}
        /\ Ways[w].put \in {"mfa", "device"} <=> w \in {"pending", "newDevice"}
    BY DEF WayName, Ways, Way
  <1>2. \A w \in WayName :
        /\ Ways[w].regen <=> w \in {"password", "code", "webauthn", "social", "socialTo", "oidc",
                                "oidcSocial", "device"}
        /\ Ways[w].limit = "after" <=> w \in {"password", "oidc", "oidcSocial", "device"}
        /\ Ways[w].limit = "before" <=> w = "continue"
        /\ Ways[w].limit = "never" <=> w \notin {"password", "oidc", "oidcSocial", "device", "continue"}
    BY DEF WayName, Ways, Way
  <1>3. QED
    BY <1>1, <1>2 DEF Pending

LEMMA AddOrUpdateData ==
    ASSUME NEW d \in SessionData, NEW u \in User, now \in Nat, now < MaxTime
    PROVE  /\ AddOrUpdateAccount(d, u) \in SessionData
           /\ Accounts(AddOrUpdateAccount(d, u)) \subseteq Accounts(d) \cup {u}
           /\ AddOrUpdateAccount(d, u).acct = u
  <1>1. CASE d.active = NoUser \/ (u \notin Accounts(d) /\ ~CanAdd(d, u))
    BY <1>1, SetAuthenticatedData DEF AddOrUpdateAccount
  <1>2. CASE ~(d.active = NoUser \/ (u \notin Accounts(d) /\ ~CanAdd(d, u)))
    <2>1. CASE u \notin Accounts(d)
      BY <1>2, <2>1, AddAuthenticatedData DEF AddOrUpdateAccount
    <2>2. CASE u \in Accounts(d) /\ u # d.active
      BY <1>2, <2>2, SwitchUserData DEF AddOrUpdateAccount, Accounts
    <2>3. CASE u \in Accounts(d) /\ u = d.active
      BY <1>2, <2>3, DataFields DEF AddOrUpdateAccount
    <2>4. QED
      BY <2>1, <2>2, <2>3
  <1>3. QED
    BY <1>1, <1>2

\* The copy after a sign-in holds no account but those it held and the new one.
LEMMA PutAccountData ==
    ASSUME NEW d \in SessionData, NEW w \in WayName, NEW u \in User, w = "pending" => u \in MfaUser,
           now \in Nat, w \in Pending \/ Ways[w].put = "add" \/ now < MaxTime
    PROVE  /\ PutAccount(w, d, u) \in SessionData
           /\ Accounts(PutAccount(w, d, u)) \subseteq Accounts(d) \cup (IF w \in Pending THEN {} ELSE {u})
           /\ w \in Pending => PutAccount(w, d, u).acct = d.acct
           /\ Ways[w].limit = "after" => PutAccount(w, d, u).acct = u
           /\ w = "continue" =>
                PutAccount(w, d, u).acct = u \/ (d.active # NoUser /\ PutAccount(w, d, u) = d)
  <1> DEFINE e == PutAccount(w, d, u)
  <1>0. /\ \A x \in SessionData : x \in DataRecord /\ Consistent(x)
        /\ \A x \in DataRecord : Consistent(x) => x \in SessionData
    BY SessionDataIs
  <1>1. CASE w = "pending"
    <2>1. e = [d EXCEPT !.mfa = u] /\ u \in MfaUser
      BY <1>1 DEF PutAccount
    <2> HIDE DEF e
    <2>2. e \in DataRecord /\ \A f \in {"active", "others", "acct", "auth"} : e[f] = d[f]
      BY <1>0, <2>1 DEF DataRecord
    <2>3. e.active = d.active /\ e.others = d.others /\ e.acct = d.acct /\ e.auth = d.auth
      BY <2>2
    <2>4. Consistent(e) /\ Accounts(e) = Accounts(d)
      BY <1>0, <2>3 DEF Consistent, Accounts
    <2>5. QED
      BY <1>0, <1>1, <2>2, <2>3, <2>4, WaysTable DEF e
  <1>a. CASE w = "newDevice"
    <2>1. e = [d EXCEPT !.dev = u]
      BY <1>a DEF PutAccount
    <2> HIDE DEF e
    <2>2. e \in DataRecord /\ \A f \in {"active", "others", "acct", "auth"} : e[f] = d[f]
      BY <1>0, <2>1 DEF DataRecord
    <2>3. e.active = d.active /\ e.others = d.others /\ e.acct = d.acct /\ e.auth = d.auth
      BY <2>2
    <2>4. Consistent(e) /\ Accounts(e) = Accounts(d)
      BY <1>0, <2>3 DEF Consistent, Accounts
    <2>5. QED
      BY <1>0, <1>a, <2>2, <2>3, <2>4, WaysTable DEF e
  <1>2. CASE w = "another"
    <2> DEFINE a == AddAuthenticatedUser(d, u)
    <2>1. e = [a EXCEPT !.intent = FALSE]
      BY <1>2 DEF PutAccount
    <2>2. a \in SessionData /\ Accounts(a) \subseteq Accounts(d) \cup {u}
      BY AddAuthenticatedData
    <2> HIDE DEF e, a
    <2>3. /\ e \in DataRecord /\ e.active = a.active /\ e.others = a.others
          /\ e.acct = a.acct /\ e.auth = a.auth
      BY <1>0, <2>1, <2>2 DEF DataRecord
    <2>4. Consistent(e) /\ Accounts(e) = Accounts(a)
      BY <1>0, <2>2, <2>3 DEF Consistent, Accounts
    <2>5. QED
      BY <1>0, <1>2, <2>2, <2>3, <2>4, WaysTable DEF e
  <1>3. CASE w = "webauthn"
    <2> DEFINE a == AddAuthenticatedUser(d, u)
    <2>1. e = [a EXCEPT !.mfa = NoUser]
      BY <1>3 DEF PutAccount
    <2>2. a \in SessionData /\ Accounts(a) \subseteq Accounts(d) \cup {u}
      BY AddAuthenticatedData
    <2> HIDE DEF e, a
    <2>3. /\ e \in DataRecord /\ e.active = a.active /\ e.others = a.others
          /\ e.acct = a.acct /\ e.auth = a.auth
      BY <1>0, <2>1, <2>2 DEF DataRecord
    <2>4. Consistent(e) /\ Accounts(e) = Accounts(a)
      BY <1>0, <2>2, <2>3 DEF Consistent, Accounts
    <2>5. QED
      BY <1>0, <1>3, <2>2, <2>3, <2>4, WaysTable DEF e
  <1>4. CASE w = "code"
    <2> DEFINE a == SetAuthenticated(d, u)
    <2>1. e = [a EXCEPT !.mfa = NoUser, !.intent = FALSE]
      BY <1>4 DEF PutAccount
    <2>2. a \in SessionData /\ Accounts(a) \subseteq Accounts(d) \cup {u}
      BY <1>4, WaysTable, SetAuthenticatedData
    <2> HIDE DEF e, a
    <2>3. /\ e \in DataRecord /\ e.active = a.active /\ e.others = a.others
          /\ e.acct = a.acct /\ e.auth = a.auth
      BY <1>0, <2>1, <2>2 DEF DataRecord
    <2>4. Consistent(e) /\ Accounts(e) = Accounts(a)
      BY <1>0, <2>2, <2>3 DEF Consistent, Accounts
    <2>5. QED
      BY <1>0, <1>4, <2>2, <2>3, <2>4, WaysTable DEF e
  <1>5. CASE w = "socialTo"
    <2>1. e = AddAuthenticatedUser(d, u)
      BY <1>5 DEF PutAccount
    <2>2. QED
      BY <1>5, <2>1, AddAuthenticatedData, WaysTable
  <1>6. CASE w \in {"password", "social", "recovered", "oidcSocial"}
    <2>1. e = SetAuthenticated(d, u)
      BY <1>6 DEF PutAccount
    <2>2. now < MaxTime
      BY <1>6, WaysTable
    <2>3. QED
      BY <1>6, <2>1, <2>2, SetAuthenticatedData, WaysTable
  <1>7. CASE w = "oidc"
    <2>1. e = AddOrUpdateAccount(d, u) /\ now < MaxTime
      BY <1>7, WaysTable DEF PutAccount
    <2>2. QED
      BY <1>7, <2>1, AddOrUpdateData, WaysTable
  <1>b. CASE w = "device"
    <2> DEFINE a == AddOrUpdateAccount(d, u)
    <2>1. e = [a EXCEPT !.dev = NoUser]
      BY <1>b DEF PutAccount
    <2>2. a \in SessionData /\ Accounts(a) \subseteq Accounts(d) \cup {u} /\ a.acct = u
      BY <1>b, WaysTable, AddOrUpdateData
    <2> HIDE DEF e, a
    <2>3. /\ e \in DataRecord /\ e.active = a.active /\ e.others = a.others
          /\ e.acct = a.acct /\ e.auth = a.auth
      BY <1>0, <2>1, <2>2 DEF DataRecord
    <2>4. Consistent(e) /\ Accounts(e) = Accounts(a)
      BY <1>0, <2>2, <2>3 DEF Consistent, Accounts
    <2>5. QED
      BY <1>0, <1>b, <2>2, <2>3, <2>4, WaysTable DEF e
  <1>8. CASE w = "continue"
    <2>0. now < MaxTime
      BY <1>8, WaysTable
    <2> DEFINE a == AddAuthenticatedUser(d, u)
    <2>1. a \in SessionData /\ Accounts(a) \subseteq Accounts(d) \cup {u}
      BY AddAuthenticatedData
    <2> HIDE DEF a
    <2>2. /\ SetAuthenticated(a, u) \in SessionData /\ SetAuthenticated(a, u).acct = u
          /\ Accounts(SetAuthenticated(a, u)) \subseteq Accounts(a) \cup {u}
      BY <2>0, <2>1, SetAuthenticatedData
    <2>3. e = IF CanAdd(d, u) \/ u \in Accounts(d) \/ ~MultiAccount THEN SetAuthenticated(a, u) ELSE d
      BY <1>8 DEF PutAccount, a
    <2>4. CanAdd(d, u) \/ d.active # NoUser
      BY DEF CanAdd
    <2> HIDE DEF e
    <2>5. QED
      BY <1>8, <2>1, <2>2, <2>3, <2>4, WaysTable DEF e
  <1>9. QED
    BY <1>1, <1>a, <1>2, <1>3, <1>4, <1>5, <1>6, <1>7, <1>b, <1>8 DEF WayName

-----------------------------------------------------------------------------
(* What a step does to the requests.                                       *)

\* The request of x is the same, except that it may be out of date.
SameRequest(x) ==
    /\ req'[x].op = req[x].op /\ req'[x].at = req[x].at /\ req'[x].sid = req[x].sid
    /\ req'[x].data = req[x].data /\ req'[x].user = req[x].user /\ req'[x].todo = req[x].todo
    /\ req'[x].limited = req[x].limited
    /\ req'[x].fresh => req[x].fresh

\* The requests of other tabs than T that hold one of the sessions S age.
RestOf(T, S) ==
    \A x \in Tab \ T :
        /\ SameRequest(x)
        /\ req[x].at = "idle" => req'[x] = req[x]
        /\ req'[x].fresh /\ req[x].at # "idle" => req[x].sid \notin S

\* Nothing but the sessions S is written.
Writes(S) ==
    \A s \in Sid \ S :
        /\ store'[s] = store[s]
        /\ s \in ended' => s \in ended
        /\ \A p \in gone' : p[1] = s => p \in gone

LEMMA IdleRequest == Idle \in Request
  <1>1. 0 \in 0..MaxSid /\ {} \subseteq Sid
    BY SessionAssumption
  <1>2. QED
    BY <1>1, EmptyData DEF Idle, Request

LEMMA RequestFields ==
    ASSUME TypeOK, NEW t \in Tab
    PROVE  /\ req[t] \in Request
           /\ req[t].op \in WayName \cup {"none", "revoke"}
           /\ req[t].at \in {"idle", "open", "limit", "delete", "save"}
           /\ req[t].sid \in 0..MaxSid /\ req[t].data \in SessionData
           /\ req[t].user \in User \cup {NoUser} /\ req[t].todo \subseteq Sid
           /\ req[t].limited \in BOOLEAN /\ req[t].fresh \in BOOLEAN
  BY DEF TypeOK, Request

LEMMA OutdatedRequests ==
    ASSUME TypeOK, NEW T, NEW S
    PROVE  /\ Outdated(T, S) \in [Tab -> Request]
           /\ \A x \in Tab \cap T : Outdated(T, S)[x] = req[x]
           /\ \A x \in Tab :
                LET q == Outdated(T, S)[x]
                IN  /\ q.op = req[x].op /\ q.at = req[x].at /\ q.sid = req[x].sid
                    /\ q.data = req[x].data /\ q.user = req[x].user /\ q.todo = req[x].todo
                    /\ q.limited = req[x].limited
                    /\ q.fresh => req[x].fresh
                    /\ req[x].at = "idle" => q = req[x]
                    /\ x \notin T /\ q.fresh /\ req[x].at # "idle" => req[x].sid \notin S
  <1> DEFINE R == Outdated(T, S)
  <1>1. ASSUME NEW x \in Tab
        PROVE  /\ R[x] = IF x \notin T /\ req[x].at # "idle" /\ req[x].sid \in S
                           THEN [req[x] EXCEPT !.fresh = FALSE] ELSE req[x]
               /\ R[x] \in Request
    <2>1. R[x] = IF x \notin T /\ req[x].at # "idle" /\ req[x].sid \in S
                   THEN [req[x] EXCEPT !.fresh = FALSE] ELSE req[x]
      BY DEF Outdated
    <2>2. req[x] \in Request
      BY RequestFields
    <2>3. [req[x] EXCEPT !.fresh = FALSE] \in Request
      BY <2>2 DEF Request
    <2>4. QED
      BY <2>1, <2>2, <2>3
  <1>2. R \in [Tab -> Request]
    BY <1>1 DEF Outdated
  <1>3. ASSUME NEW x \in Tab
        PROVE  LET q == R[x]
                IN  /\ q.op = req[x].op /\ q.at = req[x].at /\ q.sid = req[x].sid
                    /\ q.data = req[x].data /\ q.user = req[x].user /\ q.todo = req[x].todo
                    /\ q.limited = req[x].limited
                    /\ q.fresh => req[x].fresh
                    /\ req[x].at = "idle" => q = req[x]
                    /\ x \notin T /\ q.fresh /\ req[x].at # "idle" => req[x].sid \notin S
    <2>1. req[x] \in Request
      BY RequestFields
    <2> DEFINE old == req[x]
               q == R[x]
    <2>2. q = IF x \notin T /\ old.at # "idle" /\ old.sid \in S
                THEN [old EXCEPT !.fresh = FALSE] ELSE old
      BY <1>1
    <2> HIDE DEF q, R, old
    <2>3. old \in Request
      BY <2>1 DEF old
    <2>4. CASE x \notin T /\ old.at # "idle" /\ old.sid \in S
      BY <2>2, <2>3, <2>4 DEF Request, q, old
    <2>5. CASE ~(x \notin T /\ old.at # "idle" /\ old.sid \in S)
      BY <2>2, <2>3, <2>5 DEF q, old
    <2>6. QED
      BY <2>4, <2>5
  <1>4. \A x \in Tab \cap T : R[x] = req[x]
    BY <1>1
  <1>5. QED
    BY <1>2, <1>3, <1>4

\* A step that only changes the request of t.
LEMMA QuietRest ==
    ASSUME TypeOK, NEW t \in Tab, NEW q \in Request, req' = [req EXCEPT ![t] = q]
    PROVE  req' \in [Tab -> Request] /\ req'[t] = q /\ RestOf({t}, {})
  <1>1. req \in [Tab -> Request]
    BY DEF TypeOK
  <1>2. \A x \in Tab \ {t} : req'[x] = req[x]
    BY <1>1
  <1>3. QED
    BY <1>1, <1>2 DEF RestOf, SameRequest

\* A step of t that writes the sessions S.
LEMMA WritingRest ==
    ASSUME TypeOK, NEW t \in Tab, NEW q \in Request, NEW S,
           req' = [Outdated({t}, S) EXCEPT ![t] = q]
    PROVE  req' \in [Tab -> Request] /\ req'[t] = q /\ RestOf({t}, S)
  <1> DEFINE R == Outdated({t}, S)
  <1>1. R \in [Tab -> Request]
    BY OutdatedRequests
  <1>2. \A x \in Tab :
           LET p == R[x]
           IN  /\ p.op = req[x].op /\ p.at = req[x].at /\ p.sid = req[x].sid
               /\ p.data = req[x].data /\ p.user = req[x].user /\ p.todo = req[x].todo
               /\ p.limited = req[x].limited
               /\ p.fresh => req[x].fresh
               /\ req[x].at = "idle" => p = req[x]
               /\ x \notin {t} /\ p.fresh /\ req[x].at # "idle" => req[x].sid \notin S
    BY OutdatedRequests
  <1> HIDE DEF R
  <1>3. req' = [R EXCEPT ![t] = q]
    BY DEF R
  <1>4. \A x \in Tab \ {t} : req'[x] = R[x]
    BY <1>1, <1>3
  <1>5. req' \in [Tab -> Request] /\ req'[t] = q
    BY <1>1, <1>3
  <1>6. ASSUME NEW x \in Tab \ {t}
        PROVE  /\ SameRequest(x)
               /\ req[x].at = "idle" => req'[x] = req[x]
               /\ req'[x].fresh /\ req[x].at # "idle" => req[x].sid \notin S
    <2>1. x \in Tab /\ x \notin {t} /\ req'[x] = R[x]
      BY <1>4
    <2>2. QED
      BY <1>2, <2>1 DEF SameRequest
  <1>7. QED
    BY <1>5, <1>6 DEF RestOf

LEMMA SessionOfTab ==
    ASSUME TypeOK, NEW t \in Tab
    PROVE  /\ Session(t) \in 0..MaxSid /\ Copy(t) \in SessionData
           /\ Session(t) # 0 =>
                /\ Session(t) = cookie[BrowserOf[t]] /\ store[Session(t)].stored
                /\ Copy(t) = store[Session(t)].data
           /\ Session(t) = 0 => Copy(t) = Empty
  <1>1. BrowserOf[t] \in Browser
    BY SessionAssumption
  <1>2. cookie[BrowserOf[t]] \in 0..MaxSid
    BY <1>1 DEF TypeOK
  <1>3. Session(t) \in 0..MaxSid
    BY <1>2, SessionAssumption DEF Session
  <1>4. ASSUME Session(t) # 0
        PROVE  /\ Session(t) = cookie[BrowserOf[t]] /\ store[Session(t)].stored
               /\ Copy(t) = store[Session(t)].data /\ Copy(t) \in SessionData
    <2>1. Session(t) = cookie[BrowserOf[t]] /\ store[Session(t)].stored
      BY <1>4 DEF Session
    <2>2. Session(t) \in Sid
      BY <1>3, <1>4, SessionAssumption DEF Sid
    <2>3. QED
      BY <1>4, <2>1, <2>2 DEF Copy, TypeOK
  <1>5. QED
    BY <1>3, <1>4, EmptyData DEF Copy

LEMMA ReceiveEffect ==
    ASSUME TypeOK, NEW t \in Tab, Receive(t)
    PROVE  /\ req' \in [Tab -> Request] /\ RestOf({t}, {})
           /\ req'[t].op = "none" /\ req'[t].at = "open" /\ req'[t].user = NoUser
           /\ req'[t].sid = Session(t) /\ req'[t].data = Copy(t)
           /\ req'[t].todo = {} /\ req'[t].fresh
  <1> DEFINE q == [Idle EXCEPT !.at = "open", !.sid = Session(t), !.data = Copy(t)]
  <1>1. /\ q \in Request
        /\ q.op = "none" /\ q.at = "open" /\ q.user = NoUser /\ q.sid = Session(t)
        /\ q.data = Copy(t) /\ q.todo = {} /\ q.fresh
    BY SessionOfTab, IdleRequest DEF Idle, Request
  <1>2. req' = [req EXCEPT ![t] = q]
    BY DEF Receive
  <1> HIDE DEF q
  <1>3. req' \in [Tab -> Request] /\ req'[t] = q /\ RestOf({t}, {})
    BY <1>1, <1>2, QuietRest
  <1>4. QED
    BY <1>1, <1>3

LEMMA AbandonEffect ==
    ASSUME TypeOK, NEW t \in Tab, Abandon(t)
    PROVE  req' \in [Tab -> Request] /\ RestOf({t}, {}) /\ req'[t] = Idle
  BY IdleRequest, QuietRest DEF Abandon

LEMMA FindExcessEffect ==
    ASSUME TypeOK, NEW t \in Tab, NEW w \in WayName, NEW u \in User, FindExcess(t, w, u)
    PROVE  /\ req' \in [Tab -> Request] /\ RestOf({t}, {})
           /\ req'[t].op = w /\ req'[t].user = u /\ req'[t].todo = Excess(u, req[t].sid)
           /\ req'[t].at = IF Excess(u, req[t].sid) = {} THEN "save" ELSE "delete"
           /\ req'[t].sid = req[t].sid /\ req'[t].data = req[t].data
           /\ req'[t].limited = req[t].limited /\ req'[t].fresh = req[t].fresh
  <1> DEFINE S == Excess(u, req[t].sid)
             old == req[t]
             q == [old EXCEPT !.op = w, !.user = u, !.todo = S,
                              !.at = IF S = {} THEN "save" ELSE "delete"]
  <1>1. old \in Request
    BY RequestFields
  <1>2. S \subseteq Sid
    BY DEF Excess, SessionsOf
  <1>3. req' = [req EXCEPT ![t] = q]
    <2>1. req \in [Tab -> Request]
      BY DEF TypeOK
    <2>2. QED
      BY <2>1, <1>1 DEF FindExcess, Request
  <1> HIDE DEF old, S
  <1>4. /\ q \in Request
        /\ q.op = w /\ q.user = u /\ q.todo = S
        /\ q.at = IF S = {} THEN "save" ELSE "delete"
        /\ q.sid = old.sid /\ q.data = old.data /\ q.limited = old.limited /\ q.fresh = old.fresh
    BY <1>1, <1>2 DEF Request
  <1> HIDE DEF q
  <1>5. req' \in [Tab -> Request] /\ req'[t] = q /\ RestOf({t}, {})
    BY <1>3, <1>4, QuietRest
  <1>6. QED
    BY <1>4, <1>5 DEF S, old

LEMMA LimitFailsEffect ==
    ASSUME TypeOK, NEW t \in Tab, LimitFails(t)
    PROVE  /\ req' \in [Tab -> Request] /\ RestOf({t}, {})
           /\ req'[t].op = req[t].op /\ req'[t].user = req[t].user /\ req'[t].todo = {}
           /\ req'[t].at = "save" /\ req'[t].limited = FALSE
           /\ req'[t].sid = req[t].sid /\ req'[t].data = req[t].data
           /\ req'[t].fresh = req[t].fresh
  <1> DEFINE old == req[t]
             q == [old EXCEPT !.todo = {}, !.at = "save", !.limited = FALSE]
  <1>1. old \in Request
    BY RequestFields
  <1>3. req' = [req EXCEPT ![t] = q]
    <2>1. req \in [Tab -> Request]
      BY DEF TypeOK
    <2>2. QED
      BY <2>1, <1>1 DEF LimitFails, Request
  <1> HIDE DEF old
  <1>4. /\ q \in Request
        /\ q.op = old.op /\ q.user = old.user /\ q.todo = {} /\ q.at = "save" /\ q.limited = FALSE
        /\ q.sid = old.sid /\ q.data = old.data /\ q.fresh = old.fresh
    BY <1>1 DEF Request
  <1> HIDE DEF q
  <1>5. req' \in [Tab -> Request] /\ req'[t] = q /\ RestOf({t}, {})
    BY <1>3, <1>4, QuietRest
  <1>6. QED
    BY <1>4, <1>5 DEF old

LEMMA FindOthersEffect ==
    ASSUME TypeOK, NEW t \in Tab, FindOthers(t)
    PROVE  /\ req' \in [Tab -> Request] /\ RestOf({t}, {})
           /\ req'[t].op = "revoke" /\ req'[t].at = "delete"
           /\ req[t].sid \notin req'[t].todo /\ \A s \in req'[t].todo : store[s].stored
           /\ req'[t].sid = req[t].sid /\ req'[t].data = req[t].data
           /\ req'[t].fresh = req[t].fresh
  <1> DEFINE old == req[t]
  <1>1. old \in Request /\ req \in [Tab -> Request]
    BY RequestFields DEF TypeOK
  <1> DEFINE found == SessionsOf(old.data.active) \ {old.sid}
  <1>a. PICK S \in {found} \cup {{s} : s \in found} :
          req' = [req EXCEPT ![t].op = "revoke", ![t].todo = S, ![t].at = "delete"]
    BY DEF FindOthers
  <1>b. found \subseteq Sid /\ old.sid \notin found /\ \A s \in found : store[s].stored
    BY DEF SessionsOf
  <1>2. /\ S \subseteq Sid /\ old.sid \notin S /\ \A s \in S : store[s].stored
        /\ req' = [req EXCEPT ![t].op = "revoke", ![t].todo = S, ![t].at = "delete"]
    <2> HIDE DEF found
    <2>1. QED
      BY <1>a, <1>b
  <1> DEFINE q == [old EXCEPT !.op = "revoke", !.todo = S, !.at = "delete"]
  <1>3. req' = [req EXCEPT ![t] = q]
    BY <1>1, <1>2 DEF Request
  <1> HIDE DEF old
  <1>4. /\ q \in Request
        /\ q.op = "revoke" /\ q.todo = S /\ q.at = "delete"
        /\ q.sid = old.sid /\ q.data = old.data /\ q.fresh = old.fresh
    BY <1>1, <1>2 DEF Request
  <1> HIDE DEF q
  <1>5. req' \in [Tab -> Request] /\ req'[t] = q /\ RestOf({t}, {})
    BY <1>3, <1>4, QuietRest
  <1>6. QED
    BY <1>2, <1>4, <1>5 DEF old

LEMMA DestroyEffect ==
    ASSUME TypeOK, NEW S \in SUBSET Sid, Destroy(S)
    PROVE  /\ store' \in [Sid -> [stored : BOOLEAN, data : SessionData]]
           /\ \A s \in S : ~store'[s].stored
           /\ Writes(S) /\ ended' \subseteq Sid /\ gone' \subseteq gone
           /\ \A s \in S : \A p \in gone' : p[1] # s
           /\ \A s \in Sid : store'[s].stored => s \notin S /\ store'[s] = store[s]
           /\ free' = {p \in free : p[1] \notin S}
  <1>1. None \in [stored : BOOLEAN, data : SessionData] /\ ~None.stored
    BY EmptyData DEF None
  <1>2. \A s \in Sid : store'[s] = IF s \in S THEN None ELSE store[s]
    BY DEF Destroy
  <1>3. store' \in [Sid -> [stored : BOOLEAN, data : SessionData]]
    BY <1>1 DEF Destroy, TypeOK
  <1>4. ended' = ended \cup S /\ gone' = {p \in gone : p[1] \notin S} /\ free' = {p \in free : p[1] \notin S}
    BY DEF Destroy
  <1>5. Writes(S)
    BY <1>2, <1>4 DEF Writes
  <1>6. QED
    BY <1>1, <1>2, <1>3, <1>4, <1>5 DEF TypeOK

\* A sign-in goes on under the next identifier: how GoOn changes the request p of t.
LEMMA GoOnEffect ==
    ASSUME TypeOK, NEW R \in [Tab -> Request], NEW t \in Tab, NEW w \in WayName, NEW u \in User,
           NEW d \in SessionData, sids < MaxSid, GoOn(R, t, w, u, sids + 1, d)
    PROVE  \E q \in Request :
               /\ req' = [R EXCEPT ![t] = q]
               /\ q.op = w /\ q.user = u /\ q.sid = sids + 1 /\ q.data = d
               /\ q.at = IF Ways[w].limit = "after" THEN "limit" ELSE "save"
               /\ q.todo = R[t].todo /\ q.limited = R[t].limited /\ q.fresh = R[t].fresh
               /\ sids + 1 \in Sid
  <1> DEFINE n == sids + 1
             p == R[t]
             at == IF Ways[w].limit = "after" THEN "limit" ELSE "save"
             q == [p EXCEPT !.op = w, !.user = u, !.sid = n, !.data = d, !.at = at]
  <1>1. n \in 0..MaxSid /\ n \in Sid
    BY SessionAssumption DEF TypeOK, Sid
  <1>2. at \in {"limit", "save"} /\ p \in Request
    OBVIOUS
  <1>3. req' = [R EXCEPT ![t] = q]
    BY DEF GoOn
  <1> HIDE DEF n, p, at
  <1>4. /\ q \in Request
        /\ q.op = w /\ q.user = u /\ q.sid = n /\ q.data = d /\ q.at = at
        /\ q.todo = p.todo /\ q.limited = p.limited /\ q.fresh = p.fresh
    BY <1>1, <1>2 DEF Request
  <1> HIDE DEF q
  <1>5. QED
    BY <1>1, <1>3, <1>4 DEF n, p, at

LEMMA RegenerateEffect ==
    ASSUME TypeOK, NEW t \in Tab, NEW w \in WayName, NEW u \in User, Regenerate(t, w, u)
    PROVE  LET d == PutAccount(w, req[t].data, u)
               old == {req[t].sid} \ {0}
           IN  /\ d \in SessionData
               /\ Accounts(d) \subseteq Accounts(req[t].data) \cup {u}
               /\ req' \in [Tab -> Request] /\ RestOf({t}, old)
               /\ old \subseteq Sid /\ Destroy(old)
               /\ req'[t].op = w /\ req'[t].user = u /\ req'[t].sid = sids + 1 /\ req'[t].data = d
               /\ req'[t].at = IF Ways[w].limit = "after" THEN "limit" ELSE "save"
               /\ req'[t].todo = req[t].todo /\ req'[t].fresh = req[t].fresh
               /\ sids + 1 \in Sid /\ now' \in 0..MaxTime
               /\ Ways[w].limit = "after" => d.acct = u
  <1> DEFINE d == PutAccount(w, req[t].data, u)
             S == {req[t].sid} \ {0}
             R == Outdated({t}, S)
  <1>1. req[t].sid \in 0..MaxSid /\ req[t].data \in SessionData
    BY RequestFields
  <1>2. now \in Nat /\ now \in 0..MaxTime /\ sids < MaxSid /\ MaxSid \in Nat /\ MaxTime \in Nat
    BY SessionAssumption DEF TypeOK, Regenerate
  <1>3. w \notin Pending /\ w # "pending" /\ Stamp(w)
    BY WaysTable DEF Regenerate
  <1>4. (w \in Pending \/ Ways[w].put = "add" \/ now < MaxTime) /\ now' \in 0..MaxTime
    BY <1>2, <1>3 DEF Stamp
  <1>5. /\ d \in SessionData /\ Accounts(d) \subseteq Accounts(req[t].data) \cup {u}
        /\ Ways[w].limit = "after" => d.acct = u
    BY <1>1, <1>2, <1>3, <1>4, PutAccountData
  <1>6. S \subseteq Sid
    BY <1>1, <1>2 DEF Sid
  <1>7. R \in [Tab -> Request] /\ R[t] = req[t]
    BY OutdatedRequests
  <1>8. Destroy(S) /\ GoOn(R, t, w, u, sids + 1, d)
    BY DEF Regenerate
  <1> HIDE DEF R, d, S
  <1>9. PICK q \in Request :
               /\ req' = [R EXCEPT ![t] = q]
               /\ q.op = w /\ q.user = u /\ q.sid = sids + 1 /\ q.data = d
               /\ q.at = IF Ways[w].limit = "after" THEN "limit" ELSE "save"
               /\ q.todo = R[t].todo /\ q.limited = R[t].limited /\ q.fresh = R[t].fresh
               /\ sids + 1 \in Sid
    BY <1>2, <1>5, <1>7, <1>8, GoOnEffect
  <1>12. req' \in [Tab -> Request] /\ req'[t] = q /\ RestOf({t}, S)
    BY <1>9, WritingRest DEF R
  <1>13. QED
    BY <1>4, <1>5, <1>6, <1>7, <1>8, <1>9, <1>12 DEF d, S

LEMMA RegenerateFailsEffect ==
    ASSUME TypeOK, NEW t \in Tab, NEW w \in WayName, NEW u \in User, RegenerateFails(t, w, u)
    PROVE  LET d == PutAccount(w, Empty, u)
           IN  /\ d \in SessionData
               /\ Accounts(d) \subseteq {u}
               /\ req' \in [Tab -> Request] /\ RestOf({t}, {})
               /\ req'[t].op = w /\ req'[t].user = u /\ req'[t].sid = sids + 1 /\ req'[t].data = d
               /\ req'[t].at = IF Ways[w].limit = "after" THEN "limit" ELSE "save"
               /\ req'[t].todo = req[t].todo /\ req'[t].fresh
               /\ sids + 1 \in Sid /\ now' \in 0..MaxTime
               /\ Ways[w].limit = "after" => d.acct = u
  <1> DEFINE d == PutAccount(w, Empty, u)
             R == [req EXCEPT ![t].fresh = TRUE]
             p == [req[t] EXCEPT !.fresh = TRUE]
  <1>1. req[t] \in Request /\ req \in [Tab -> Request]
    BY RequestFields DEF TypeOK
  <1>2. now \in Nat /\ now \in 0..MaxTime /\ sids < MaxSid /\ MaxSid \in Nat /\ MaxTime \in Nat
    BY SessionAssumption DEF TypeOK, RegenerateFails
  <1>3. w \notin Pending /\ w # "pending" /\ Stamp(w)
    BY WaysTable DEF RegenerateFails
  <1>4. (w \in Pending \/ Ways[w].put = "add" \/ now < MaxTime) /\ now' \in 0..MaxTime
    BY <1>2, <1>3 DEF Stamp
  <1>5. /\ d \in SessionData /\ Accounts(d) \subseteq {u}
        /\ Ways[w].limit = "after" => d.acct = u
    <2>1. /\ d \in SessionData
          /\ Accounts(d) \subseteq Accounts(Empty) \cup (IF w \in Pending THEN {} ELSE {u})
          /\ Ways[w].limit = "after" => d.acct = u
      BY <1>2, <1>3, <1>4, EmptyData, PutAccountData
    <2>2. QED
      BY <1>3, <2>1, EmptyData
  <1>6. p \in Request /\ p.todo = req[t].todo /\ p.fresh = TRUE
    BY <1>1 DEF Request
  <1>7. R = [req EXCEPT ![t] = p]
    BY <1>1 DEF Request
  <1>a. GoOn(R, t, w, u, sids + 1, d) /\ sids < MaxSid
    BY DEF RegenerateFails
  <1> HIDE DEF R, d, p
  <1>8. R \in [Tab -> Request] /\ R[t] = p
    BY <1>1, <1>6, <1>7
  <1>9. PICK q \in Request :
               /\ req' = [R EXCEPT ![t] = q]
               /\ q.op = w /\ q.user = u /\ q.sid = sids + 1 /\ q.data = d
               /\ q.at = IF Ways[w].limit = "after" THEN "limit" ELSE "save"
               /\ q.todo = R[t].todo /\ q.limited = R[t].limited /\ q.fresh = R[t].fresh
               /\ sids + 1 \in Sid
    BY <1>5, <1>8, <1>a, GoOnEffect
  <1>10. req' = [req EXCEPT ![t] = q]
    BY <1>1, <1>7, <1>9
  <1>12. req' \in [Tab -> Request] /\ req'[t] = q /\ RestOf({t}, {})
    BY <1>9, <1>10, QuietRest
  <1>13. QED
    BY <1>4, <1>5, <1>6, <1>8, <1>9, <1>12 DEF d

LEMMA DeleteSessionEffect ==
    ASSUME TypeOK, NEW t \in Tab, DeleteSession(t)
    PROVE  \E s \in req[t].todo :
               /\ s \in Sid /\ Destroy({s}) /\ req' \in [Tab -> Request] /\ RestOf({t}, {s})
               /\ req'[t].op = req[t].op /\ req'[t].user = req[t].user
               /\ req'[t].todo = req[t].todo \ {s}
               /\ req'[t].at = IF req[t].todo = {s} THEN "save" ELSE "delete"
               /\ req'[t].sid = req[t].sid /\ req'[t].data = req[t].data
               /\ req'[t].limited = req[t].limited /\ req'[t].fresh = req[t].fresh
  <1> DEFINE p == req[t]
  <1>1. p \in Request /\ p.todo \subseteq Sid
    BY RequestFields
  <1>2. PICK s \in p.todo :
          /\ Destroy({s})
          /\ req' = [Outdated({t}, {s}) EXCEPT
                      ![t].todo = @ \ {s},
                      ![t].at = IF p.todo = {s} THEN "save" ELSE "delete"]
    BY DEF DeleteSession
  <1> DEFINE R == Outdated({t}, {s})
             at == IF p.todo = {s} THEN "save" ELSE "delete"
             q == [p EXCEPT !.todo = @ \ {s}, !.at = at]
  <1>3. R \in [Tab -> Request] /\ R[t] = p
    BY OutdatedRequests
  <1>4. req' = [R EXCEPT ![t].todo = @ \ {s}, ![t].at = at]
    BY <1>2
  <1>5. at \in {"save", "delete"}
    OBVIOUS
  <1> HIDE DEF R, p, at
  <1>6. req' = [R EXCEPT ![t] = q]
    BY <1>1, <1>3, <1>4 DEF Request
  <1>7. /\ q \in Request
        /\ q.op = p.op /\ q.user = p.user /\ q.todo = p.todo \ {s} /\ q.at = at
        /\ q.sid = p.sid /\ q.data = p.data /\ q.limited = p.limited /\ q.fresh = p.fresh
    BY <1>1, <1>5 DEF Request
  <1> HIDE DEF q
  <1>8. req' \in [Tab -> Request] /\ req'[t] = q /\ RestOf({t}, {s})
    BY <1>6, <1>7, WritingRest DEF R
  <1>9. QED
    BY <1>1, <1>2, <1>7, <1>8 DEF p, at

LEMMA LogoutEffect ==
    ASSUME TypeOK, NEW t \in Tab, Logout(t)
    PROVE  /\ req[t].sid \in Sid /\ Destroy({req[t].sid})
           /\ req' \in [Tab -> Request] /\ RestOf({t}, {req[t].sid}) /\ req'[t] = Idle
  <1>1. req[t].sid \in Sid
    BY RequestFields, SessionAssumption DEF Logout, Open, Sid
  <1>2. Destroy({req[t].sid}) /\ req' = [Outdated({t}, {req[t].sid}) EXCEPT ![t] = Idle]
    BY DEF Logout
  <1>3. QED
    BY <1>1, <1>2, IdleRequest, WritingRest

LEMMA RevokeAllEffect ==
    ASSUME TypeOK, RevokeAll
    PROVE  /\ adm.todo \subseteq Sid /\ Destroy(adm.todo)
           /\ req' \in [Tab -> Request] /\ RestOf({}, adm.todo)
  <1> DEFINE S == adm.todo
  <1>1. S \subseteq Sid /\ Destroy(S) /\ req' = Outdated({}, S)
    BY DEF TypeOK, RevokeAll
  <1> HIDE DEF S
  <1>2. RestOf({}, S)
    BY <1>1, OutdatedRequests DEF RestOf, SameRequest
  <1>3. QED
    BY <1>1, <1>2, OutdatedRequests DEF S

LEMMA SaveSessionEffect ==
    ASSUME TypeOK, NEW t \in Tab, NEW d \in SessionData, SaveSession(t, d)
    PROVE  LET s == SavedSid(t)
           IN  /\ s \in Sid /\ s = IF req[t].sid = 0 THEN sids + 1 ELSE req[t].sid
               /\ req' \in [Tab -> Request] /\ RestOf({t}, {s}) /\ req'[t] = Idle
               /\ store' \in [Sid -> [stored : BOOLEAN, data : SessionData]]
               /\ store'[s] = Stored(d) /\ store'[s].stored /\ store'[s].data = d
               /\ \A r \in Sid \ {s} : store'[r] = store[r]
               /\ cookie' \in [Browser -> 0..MaxSid]
               /\ cookie'[BrowserOf[t]] = s
               /\ \A b \in Browser \ {BrowserOf[t]} : cookie'[b] = cookie[b]
               /\ sids' = IF req[t].sid = 0 THEN sids + 1 ELSE sids
               /\ sids' \in 0..MaxSid
               /\ late' = IF req[t].fresh THEN late ELSE late \cup {s}
  <1> DEFINE s == SavedSid(t)
  <1>1. req[t].sid \in 0..MaxSid /\ sids \in 0..MaxSid /\ MaxSid \in Nat /\ BrowserOf[t] \in Browser
    BY RequestFields, SessionAssumption DEF TypeOK
  <1>2. s = IF req[t].sid = 0 THEN sids + 1 ELSE req[t].sid
    BY DEF SavedSid
  <1>3. /\ s <= MaxSid
        /\ sids' = IF req[t].sid = 0 THEN s ELSE sids
        /\ store' = [store EXCEPT ![s] = Stored(d)]
        /\ cookie' = [cookie EXCEPT ![BrowserOf[t]] = s]
        /\ req' = [Outdated({t}, {s}) EXCEPT ![t] = Idle]
        /\ late' = IF req[t].fresh THEN late ELSE late \cup {s}
    BY DEF SaveSession
  <1> HIDE DEF s
  <1>4. s \in Sid /\ s \in 0..MaxSid
    BY <1>1, <1>2, <1>3 DEF Sid
  <1>5. Stored(d) \in [stored : BOOLEAN, data : SessionData] /\ Stored(d).stored /\ Stored(d).data = d
    BY DEF Stored
  <1>6. req' \in [Tab -> Request] /\ RestOf({t}, {s}) /\ req'[t] = Idle
    BY <1>3, IdleRequest, WritingRest
  <1>7. /\ store' \in [Sid -> [stored : BOOLEAN, data : SessionData]]
        /\ store'[s] = Stored(d) /\ \A r \in Sid \ {s} : store'[r] = store[r]
    BY <1>3, <1>4, <1>5 DEF TypeOK
  <1>8. /\ cookie' \in [Browser -> 0..MaxSid] /\ cookie'[BrowserOf[t]] = s
        /\ \A b \in Browser \ {BrowserOf[t]} : cookie'[b] = cookie[b]
    BY <1>1, <1>3, <1>4 DEF TypeOK
  <1>9. sids' = (IF req[t].sid = 0 THEN sids + 1 ELSE sids) /\ sids' \in 0..MaxSid
    BY <1>1, <1>2, <1>3
  <1>10. QED
    BY <1>2, <1>3, <1>4, <1>5, <1>6, <1>7, <1>8, <1>9 DEF s

-----------------------------------------------------------------------------
(* Types, the order of steps, and the copies that are not out of date.     *)

BaseInv == TypeOK /\ InStepAll
CopyInv == Known /\ FreshCopies /\ OwnIdentifier

LEMMA IdleInStep ==
    ASSUME NEW t \in Tab, req[t] = Idle
    PROVE  InStep(t) /\ FreshCopy(t) /\ ~Regenerated(t)
  BY DEF InStep, FreshCopy, Regenerated, Idle, WayName

LEMMA SidOfRequest ==
    ASSUME TypeOK, NEW t \in Tab, InStep(t)
    PROVE  /\ req[t].at = "idle" => req[t].sid = 0
           /\ req[t].sid # 0 => req[t].sid \in Sid
  <1>1. req[t].at = "idle" => req[t].sid = 0
    BY DEF InStep, Idle
  <1>2. QED
    BY <1>1, RequestFields, SessionAssumption DEF Sid

LEMMA RestInStep ==
    ASSUME InStepAll, NEW T, NEW S, RestOf(T, S)
    PROVE  \A x \in Tab \ T : InStep(x)'
  <1>1. SUFFICES ASSUME NEW x \in Tab \ T PROVE InStep(x)'
    OBVIOUS
  <1>2. InStep(x) /\ SameRequest(x) /\ (req[x].at = "idle" => req'[x] = req[x])
    BY DEF InStepAll, RestOf
  <1>3. Regenerated(x)' <=> Regenerated(x)
    BY <1>2 DEF Regenerated, SameRequest
  <1>4. QED
    BY <1>2, <1>3 DEF InStep, SameRequest

LEMMA RestFresh ==
    ASSUME TypeOK, InStepAll, FreshCopies, NEW T, NEW S, RestOf(T, S), Writes(S)
    PROVE  \A x \in Tab \ T : FreshCopy(x)'
  <1>1. SUFFICES ASSUME NEW x \in Tab \ T, req'[x].fresh, req'[x].sid # 0
                 PROVE  IF Regenerated(x)'
                        THEN ~store'[req'[x].sid].stored /\ req'[x].sid \notin ended'
                               /\ \A p \in gone' : p[1] # req'[x].sid
                        ELSE store'[req'[x].sid] = Stored(req'[x].data)
    BY DEF FreshCopy
  <1>2. InStep(x) /\ FreshCopy(x) /\ SameRequest(x)
    BY DEF InStepAll, FreshCopies, RestOf
  <1>3. Regenerated(x)' <=> Regenerated(x)
    BY <1>2 DEF Regenerated, SameRequest
  <1>4. req[x].fresh /\ req[x].sid # 0 /\ req'[x].sid = req[x].sid /\ req'[x].data = req[x].data
    BY <1>1, <1>2 DEF SameRequest
  <1>5. req[x].sid \in Sid /\ req[x].at # "idle"
    BY <1>2, <1>4, SidOfRequest
  <1>6. req[x].sid \in Sid \ S
    BY <1>1, <1>5 DEF RestOf
  <1>7. /\ store'[req[x].sid] = store[req[x].sid]
        /\ req[x].sid \in ended' => req[x].sid \in ended
        /\ \A p \in gone' : p[1] = req[x].sid => p \in gone
    BY <1>6 DEF Writes
  <1>8. IF Regenerated(x)
        THEN ~store[req[x].sid].stored /\ req[x].sid \notin ended /\ \A p \in gone : p[1] # req[x].sid
        ELSE store[req[x].sid] = Stored(req[x].data)
    BY <1>2, <1>4 DEF FreshCopy
  <1>9. QED
    BY <1>3, <1>4, <1>7, <1>8

\* What is to be shown of the request of t when its step changes only its own request.
LEMMA OwnRest ==
    ASSUME NEW t \in Tab, NEW S, RestOf({t}, S), OwnIdentifier,
           Regenerated(t)' =>
             /\ \A x \in Tab \ {t} : req[x].sid # req'[t].sid
             /\ \A b \in Browser : cookie'[b] # req'[t].sid,
           \A x \in Tab \ {t} : Regenerated(x) =>
             /\ req'[t].sid # req[x].sid
             /\ \A b \in Browser : cookie'[b] # req[x].sid
    PROVE  OwnIdentifier'
  <1>1. \A x \in Tab \ {t} : req'[x].sid = req[x].sid /\ (Regenerated(x)' <=> Regenerated(x))
    BY DEF RestOf, SameRequest, Regenerated
  <1>2. SUFFICES ASSUME NEW y \in Tab, Regenerated(y)'
                 PROVE  /\ \A x \in Tab \ {y} : req'[x].sid # req'[y].sid
                        /\ \A b \in Browser : cookie'[b] # req'[y].sid
    BY DEF OwnIdentifier
  <1>3. CASE y = t
    BY <1>1, <1>2, <1>3
  <1>4. CASE y # t
    <2>1. Regenerated(y) /\ req'[y].sid = req[y].sid
      BY <1>1, <1>2, <1>4
    <2>2. \A x \in Tab \ {y} : req[x].sid # req[y].sid
      BY <2>1 DEF OwnIdentifier
    <2>3. QED
      BY <1>1, <1>4, <2>1, <2>2
  <1>5. QED
    BY <1>3, <1>4

\* The same when t keeps its identifier and does not begin to regenerate.
LEMMA OwnSame ==
    ASSUME NEW t \in Tab, NEW S, RestOf({t}, S), OwnIdentifier, cookie' = cookie,
           req'[t].sid = req[t].sid, Regenerated(t)' => Regenerated(t)
    PROVE  OwnIdentifier'
  <1>1. Regenerated(t)' =>
             /\ \A x \in Tab \ {t} : req[x].sid # req'[t].sid
             /\ \A b \in Browser : cookie'[b] # req'[t].sid
    BY DEF OwnIdentifier
  <1>2. \A x \in Tab \ {t} : Regenerated(x) =>
             /\ req'[t].sid # req[x].sid
             /\ \A b \in Browser : cookie'[b] # req[x].sid
    BY DEF OwnIdentifier
  <1>3. QED
    BY <1>1, <1>2, OwnRest

\* The same when t goes idle.
LEMMA OwnIdle ==
    ASSUME TypeOK, InStepAll, NEW t \in Tab, NEW S, RestOf({t}, S), OwnIdentifier, req'[t] = Idle,
           \A x \in Tab \ {t} : Regenerated(x) => \A b \in Browser : cookie'[b] # req[x].sid
    PROVE  OwnIdentifier'
  <1>1. ~Regenerated(t)' /\ req'[t].sid = 0
    BY DEF Regenerated, Idle, WayName
  <1>2. \A x \in Tab : Regenerated(x) => req[x].sid # 0
    BY DEF InStepAll, InStep
  <1>3. QED
    BY <1>1, <1>2, OwnRest

LEMMA QuietWrites ==
    ASSUME UNCHANGED <<store, ended, gone>>
    PROVE  Writes({})
  BY DEF Writes

\* Known, request by request.
LEMMA KnownRest ==
    ASSUME TypeOK, Known, NEW t \in Tab, NEW S, RestOf({t}, S), sids' \in Nat, sids <= sids',
           req'[t].sid <= sids', \A s \in req'[t].todo : s <= sids',
           \A s \in adm'.todo : s <= sids',
           \A b \in Browser : cookie'[b] <= sids',
           \A s \in Sid : store'[s].stored \/ s \in ended' => s <= sids',
           \A p \in gone' : p[1] <= sids'
    PROVE  Known'
  <1>1. \A x \in Tab \ {t} : req'[x].sid = req[x].sid /\ req'[x].todo = req[x].todo
    BY DEF RestOf, SameRequest
  <1>2. \A x \in Tab : /\ req[x].sid <= sids /\ req[x].sid \in Int
                       /\ \A s \in req[x].todo : s <= sids /\ s \in Int
    BY RequestFields DEF Known, Sid
  <1>3. sids \in Int
    BY DEF TypeOK
  <1>4. \A x \in Tab : req'[x].sid <= sids' /\ \A s \in req'[x].todo : s <= sids'
    BY <1>1, <1>2, <1>3
  <1>5. QED
    BY <1>4 DEF Known

\* A step of t that changes neither store, cookies nor identifiers.
LEMMA QuietKeeps ==
    ASSUME BaseInv, CopyInv, NEW t \in Tab, req' \in [Tab -> Request], RestOf({t}, {}),
           InStep(t)', FreshCopy(t)', req'[t].sid <= sids, OwnIdentifier',
           \A s \in req'[t].todo : s <= sids,
           UNCHANGED <<offer, store, cookie, adm, sids, now, ended, late, gone, out>>
    PROVE  BaseInv' /\ CopyInv'
  <1>1. TypeOK'
    BY DEF BaseInv, TypeOK
  <1>2. InStepAll'
    BY RestInStep DEF BaseInv, InStepAll
  <1>3. FreshCopies'
    BY QuietWrites, RestFresh DEF BaseInv, CopyInv, FreshCopies
  <1>4. Known'
    <2>1. sids \in Nat
      BY DEF BaseInv, TypeOK
    <2>2. TypeOK /\ Known
      BY DEF BaseInv, CopyInv
    <2>3. /\ \A s \in adm'.todo : s <= sids'
          /\ \A b \in Browser : cookie'[b] <= sids'
          /\ \A s \in Sid : store'[s].stored \/ s \in ended' => s <= sids'
          /\ \A p \in gone' : p[1] <= sids'
      BY <2>2 DEF Known
    <2>4. QED
      BY <2>1, <2>2, <2>3, KnownRest
  <1>5. QED
    BY <1>1, <1>2, <1>3, <1>4 DEF BaseInv, CopyInv

LEMMA ReceiveKeeps ==
    ASSUME BaseInv, CopyInv, NEW t \in Tab, Receive(t)
    PROVE  BaseInv' /\ CopyInv'
  <1>0. TypeOK /\ InStepAll /\ Known /\ FreshCopies /\ OwnIdentifier
    BY DEF BaseInv, CopyInv
  <1>1. /\ req' \in [Tab -> Request] /\ RestOf({t}, {})
        /\ req'[t].op = "none" /\ req'[t].at = "open" /\ req'[t].user = NoUser
        /\ req'[t].sid = Session(t) /\ req'[t].data = Copy(t)
        /\ req'[t].todo = {} /\ req'[t].fresh
    BY <1>0, ReceiveEffect
  <1>2. UNCHANGED <<offer, store, cookie, adm, sids, now, ended, late, gone, out, free, admitted>>
    BY DEF Receive, history
  <1>3. /\ Session(t) \in 0..MaxSid /\ Copy(t) \in SessionData
        /\ Session(t) # 0 =>
             /\ Session(t) = cookie[BrowserOf[t]] /\ store[Session(t)].stored
             /\ Copy(t) = store[Session(t)].data
        /\ Session(t) = 0 => Copy(t) = Empty
    BY <1>0, SessionOfTab
  <1>4. ~Regenerated(t)'
    BY <1>1 DEF Regenerated, WayName
  <1>5. InStep(t)'
    BY <1>1, <1>3, <1>4 DEF InStep, WayName
  <1>6. FreshCopy(t)'
    <2>1. ASSUME Session(t) # 0
          PROVE  store[Session(t)] = Stored(Copy(t))
      <3>1. Session(t) \in Sid
        BY <1>3, <2>1, SessionAssumption DEF Sid
      <3>2. store[Session(t)] \in [stored : BOOLEAN, data : SessionData]
        BY <1>0, <3>1 DEF TypeOK
      <3>3. QED
        BY <1>3, <2>1, <3>2 DEF Stored
    <2>2. QED
      BY <1>1, <1>2, <1>4, <2>1 DEF FreshCopy
  <1>7. req'[t].sid <= sids
    <2>1. BrowserOf[t] \in Browser /\ sids \in Nat
      BY <1>0, SessionAssumption DEF TypeOK
    <2>2. QED
      BY <1>0, <1>1, <1>3, <2>1 DEF Known
  <1>8. OwnIdentifier'
    <2>1. BrowserOf[t] \in Browser
      BY SessionAssumption
    <2>2. \A x \in Tab \ {t} : Regenerated(x) =>
             /\ req'[t].sid # req[x].sid
             /\ \A b \in Browser : cookie'[b] # req[x].sid
      <3>1. \A x \in Tab : Regenerated(x) => req[x].sid # 0
        BY <1>0 DEF InStepAll, InStep
      <3>2. QED
        BY <1>0, <1>1, <1>2, <1>3, <2>1, <3>1 DEF OwnIdentifier
    <2>3. QED
      BY <1>0, <1>1, <1>4, <2>2, OwnRest
  <1>9. QED
    BY <1>0, <1>1, <1>2, <1>5, <1>6, <1>7, <1>8, QuietKeeps

LEMMA AbandonKeeps ==
    ASSUME BaseInv, CopyInv, NEW t \in Tab, Abandon(t)
    PROVE  BaseInv' /\ CopyInv'
  <1>0. TypeOK /\ InStepAll /\ Known /\ FreshCopies /\ OwnIdentifier
    BY DEF BaseInv, CopyInv
  <1>1. req' \in [Tab -> Request] /\ RestOf({t}, {}) /\ req'[t] = Idle
    BY <1>0, AbandonEffect
  <1>2. UNCHANGED <<offer, store, cookie, adm, sids, now, ended, late, gone, out, free, admitted>>
    BY DEF Abandon, history
  <1>3. InStep(t)' /\ FreshCopy(t)'
    BY <1>1 DEF InStep, FreshCopy, Regenerated, Idle, WayName
  <1>4. req'[t].sid <= sids /\ req'[t].todo = {}
    BY <1>0, <1>1 DEF Idle, TypeOK
  <1>5. OwnIdentifier'
    BY <1>0, <1>1, <1>2, OwnIdle DEF OwnIdentifier
  <1>6. QED
    BY <1>0, <1>1, <1>2, <1>3, <1>4, <1>5, QuietKeeps

\* Steps in which the request of t keeps its session.
LEMMA SameSessionKeeps ==
    ASSUME BaseInv, CopyInv, NEW t \in Tab, req' \in [Tab -> Request], RestOf({t}, {}),
           InStep(t)', Regenerated(t)' <=> Regenerated(t),
           req'[t].sid = req[t].sid, req'[t].data = req[t].data, req'[t].fresh = req[t].fresh,
           \A s \in req'[t].todo : store[s].stored,
           UNCHANGED <<offer, store, cookie, adm, sids, now, ended, late, gone, out>>
    PROVE  BaseInv' /\ CopyInv'
  <1>1. FreshCopy(t)'
    <2>1. FreshCopy(t)
      BY DEF CopyInv, FreshCopies
    <2>2. QED
      BY <2>1 DEF FreshCopy
  <1>2. OwnIdentifier'
    BY OwnSame DEF CopyInv
  <1>3. req'[t].sid <= sids /\ \A s \in req'[t].todo : s <= sids
    <2>1. req'[t].todo \subseteq Sid
      BY DEF Request
    <2>2. QED
      BY <2>1 DEF CopyInv, Known
  <1>4. QED
    BY <1>1, <1>2, <1>3, QuietKeeps

LEMMA FindExcessKeeps ==
    ASSUME BaseInv, CopyInv, NEW t \in Tab, NEW w \in WayName, NEW u \in User, FindExcess(t, w, u)
    PROVE  BaseInv' /\ CopyInv'
  <1>0. TypeOK /\ InStep(t)
    BY DEF BaseInv, InStepAll
  <1>1. /\ req' \in [Tab -> Request] /\ RestOf({t}, {})
        /\ req'[t].op = w /\ req'[t].user = u /\ req'[t].todo = Excess(u, req[t].sid)
        /\ req'[t].at = IF Excess(u, req[t].sid) = {} THEN "save" ELSE "delete"
        /\ req'[t].sid = req[t].sid /\ req'[t].data = req[t].data
        /\ req'[t].limited = req[t].limited /\ req'[t].fresh = req[t].fresh
    BY <1>0, FindExcessEffect
  <1>2. UNCHANGED <<offer, store, cookie, adm, sids, now, ended, late, gone, out, free, admitted>>
    BY DEF FindExcess, history
  <1>3. req[t].sid \notin Excess(u, req[t].sid) /\ \A s \in Excess(u, req[t].sid) : store[s].stored
    BY DEF Excess, SessionsOf
  <1>4. \/ req[t].op = w /\ req[t].user = u
        \/ req[t].op = "none" /\ w = "continue" /\ u \notin MfaUser
    <2>1. CASE req[t].at = "limit" /\ req[t].op = w /\ req[t].user = u
      BY <2>1
    <2>2. CASE Verified(t, w, u) /\ Ways[w].limit = "before"
      <3>1. w = "continue" /\ req[t].at = "open" /\ OpenTo(w, req[t].data, u)
        BY <2>2, WaysTable DEF Verified
      <3>2. u \notin MfaUser
        BY <3>1 DEF OpenTo, OidcWays
      <3>3. QED
        BY <1>0, <3>1, <3>2 DEF InStep
    <2>3. QED
      BY <2>1, <2>2 DEF FindExcess
  <1>5. Regenerated(t)' <=> Regenerated(t)
    BY <1>1, <1>4, WaysTable DEF Regenerated, WayName
  <1>6. InStep(t)'
    <2>1. w \notin {"none", "revoke"}
      BY DEF WayName
    <2>2. QED
      BY <1>0, <1>1, <1>3, <1>4, <1>5, <2>1 DEF InStep
  <1>7. QED
    BY <1>1, <1>2, <1>3, <1>5, <1>6, SameSessionKeeps

LEMMA LimitFailsKeeps ==
    ASSUME BaseInv, CopyInv, NEW t \in Tab, LimitFails(t)
    PROVE  BaseInv' /\ CopyInv'
  <1>0. TypeOK /\ InStep(t)
    BY DEF BaseInv, InStepAll
  <1>1. /\ req' \in [Tab -> Request] /\ RestOf({t}, {})
        /\ req'[t].op = req[t].op /\ req'[t].user = req[t].user /\ req'[t].todo = {}
        /\ req'[t].at = "save" /\ req'[t].limited = FALSE
        /\ req'[t].sid = req[t].sid /\ req'[t].data = req[t].data
        /\ req'[t].fresh = req[t].fresh
    BY <1>0, LimitFailsEffect
  <1>2. UNCHANGED <<offer, store, cookie, adm, sids, now, ended, late, gone, out, free, admitted>>
    BY DEF LimitFails, history
  <1>3. Regenerated(t)' <=> Regenerated(t)
    BY <1>1 DEF Regenerated
  <1>4. req[t].op \in WayName /\ req[t].op # "none"
    BY DEF LimitFails, WayName
  <1>5. InStep(t)'
    BY <1>0, <1>1, <1>3, <1>4 DEF InStep
  <1>6. QED
    BY <1>1, <1>2, <1>3, <1>5, SameSessionKeeps

LEMMA FindOthersKeeps ==
    ASSUME BaseInv, CopyInv, NEW t \in Tab, FindOthers(t)
    PROVE  BaseInv' /\ CopyInv'
  <1>0. TypeOK /\ InStep(t)
    BY DEF BaseInv, InStepAll
  <1>1. /\ req' \in [Tab -> Request] /\ RestOf({t}, {})
        /\ req'[t].op = "revoke" /\ req'[t].at = "delete"
        /\ req[t].sid \notin req'[t].todo /\ \A s \in req'[t].todo : store[s].stored
        /\ req'[t].sid = req[t].sid /\ req'[t].data = req[t].data
        /\ req'[t].fresh = req[t].fresh
    BY <1>0, FindOthersEffect
  <1>2. UNCHANGED <<offer, store, cookie, adm, sids, now, ended, late, gone, out, free, admitted>>
    BY DEF FindOthers, history
  <1>3. req[t].op = "none" /\ req[t].sid # 0
    BY <1>0 DEF FindOthers, Open, InStep
  <1>4. ~Regenerated(t)' /\ ~Regenerated(t)
    BY <1>1, <1>3 DEF Regenerated, WayName
  <1>5. InStep(t)'
    BY <1>1, <1>3, <1>4 DEF InStep, WayName
  <1>6. QED
    BY <1>1, <1>2, <1>4, <1>5, SameSessionKeeps

\* A step of t that destroys the sessions S.
LEMMA DestroyKeeps ==
    ASSUME BaseInv, CopyInv, NEW t \in Tab, NEW S \in SUBSET Sid, Destroy(S),
           req' \in [Tab -> Request], RestOf({t}, S), InStep(t)', FreshCopy(t)', OwnIdentifier',
           sids' \in 0..MaxSid, sids <= sids', now' \in 0..MaxTime, \A s \in S : s <= sids,
           req'[t].sid <= sids', \A s \in req'[t].todo : s <= sids,
           UNCHANGED <<offer, cookie, adm, late, out>>
    PROVE  BaseInv' /\ CopyInv'
  <1>0. TypeOK /\ InStepAll /\ Known /\ FreshCopies
    BY DEF BaseInv, CopyInv
  <1>1. /\ store' \in [Sid -> [stored : BOOLEAN, data : SessionData]]
        /\ Writes(S) /\ ended' \subseteq Sid /\ gone' \subseteq gone
        /\ \A s \in Sid : store'[s].stored => s \notin S /\ store'[s] = store[s]
        /\ ended' = ended \cup S
    BY <1>0, DestroyEffect DEF Destroy
  <1>2. TypeOK'
    BY <1>0, <1>1 DEF TypeOK
  <1>3. InStepAll'
    BY <1>0, RestInStep DEF InStepAll
  <1>4. FreshCopies'
    BY <1>0, <1>1, RestFresh DEF FreshCopies
  <1>5. Known'
    <2>1. sids \in Nat /\ sids' \in Nat /\ req'[t].todo \subseteq Sid
      BY <1>0, SessionAssumption DEF TypeOK, Request
    <2>2. \A s \in req'[t].todo : s <= sids'
      BY <2>1 DEF Sid
    <2>3. \A s \in adm'.todo : s <= sids'
      <3>1. adm.todo \subseteq Sid
        BY <1>0 DEF TypeOK
      <3>2. QED
        BY <1>0, <2>1, <3>1 DEF Known, Sid
    <2>4. \A b \in Browser : cookie'[b] <= sids'
      <3>1. \A b \in Browser : cookie[b] \in Nat
        BY <1>0, SessionAssumption DEF TypeOK
      <3>2. QED
        BY <1>0, <2>1, <3>1 DEF Known
    <2>5. \A s \in Sid : store'[s].stored \/ s \in ended' => s <= sids'
      <3>1. \A s \in Sid : store'[s].stored \/ s \in ended' => s <= sids
        BY <1>0, <1>1 DEF Known
      <3>2. QED
        BY <2>1, <3>1 DEF Sid
    <2>6. \A p \in gone' : p[1] <= sids'
      <3>1. \A p \in gone : p[1] \in Sid /\ p[1] <= sids
        BY <1>0 DEF TypeOK, Known
      <3>2. QED
        BY <1>1, <2>1, <3>1 DEF Sid
    <2>7. QED
      BY <1>0, <2>1, <2>2, <2>3, <2>4, <2>5, <2>6, KnownRest
  <1>6. QED
    BY <1>2, <1>3, <1>4, <1>5 DEF BaseInv, CopyInv

\* The next identifier is new.
LEMMA NextIsNew ==
    ASSUME BaseInv, CopyInv, sids + 1 \in Sid
    PROVE  /\ ~store[sids + 1].stored /\ sids + 1 \notin ended
           /\ \A p \in gone : p[1] # sids + 1
           /\ \A x \in Tab : req[x].sid # sids + 1 /\ sids + 1 \notin req[x].todo
           /\ \A b \in Browser : cookie[b] # sids + 1
           /\ sids + 1 \notin adm.todo
  <1>1. sids \in Nat /\ ~(sids + 1 <= sids) /\ Known
    BY DEF BaseInv, TypeOK, CopyInv
  <1>2. QED
    BY <1>1 DEF Known

LEMMA RegenerateKeeps ==
    ASSUME BaseInv, CopyInv, NEW t \in Tab, NEW w \in WayName, NEW u \in User, Regenerate(t, w, u)
    PROVE  BaseInv' /\ CopyInv'
  <1> DEFINE d == PutAccount(w, req[t].data, u)
             S == {req[t].sid} \ {0}
  <1>0. TypeOK /\ InStepAll /\ InStep(t) /\ Known /\ FreshCopies /\ OwnIdentifier
    BY DEF BaseInv, CopyInv, InStepAll
  <1>1. /\ d \in SessionData
        /\ req' \in [Tab -> Request] /\ RestOf({t}, S)
        /\ S \subseteq Sid /\ Destroy(S)
        /\ req'[t].op = w /\ req'[t].user = u /\ req'[t].sid = sids + 1 /\ req'[t].data = d
        /\ req'[t].at = IF Ways[w].limit = "after" THEN "limit" ELSE "save"
        /\ req'[t].todo = req[t].todo /\ req'[t].fresh = req[t].fresh
        /\ sids + 1 \in Sid /\ now' \in 0..MaxTime
    BY <1>0, RegenerateEffect
  <1>2. UNCHANGED <<offer, cookie, adm, late, out>> /\ sids' = sids + 1 /\ Ways[w].regen
        /\ req[t].at = "open"
    BY DEF Regenerate, Verified
  <1>3. \A s \in S : s <= sids
    BY <1>0 DEF Known
  <1> HIDE DEF d, S
  <1>4. Regenerated(t)' /\ w # "none" /\ w # "revoke"
    BY <1>1, <1>2 DEF Regenerated, WayName
  <1>5. req[t].todo = {}
    BY <1>0, <1>2 DEF InStep
  <1>6. sids \in Nat /\ sids + 1 # 0
    BY <1>0 DEF TypeOK
  <1>7. InStep(t)'
    BY <1>1, <1>4, <1>5, <1>6 DEF InStep
  <1>8. /\ ~store[sids + 1].stored /\ sids + 1 \notin ended
        /\ \A p \in gone : p[1] # sids + 1
        /\ \A x \in Tab : req[x].sid # sids + 1
        /\ \A b \in Browser : cookie[b] # sids + 1
    BY <1>1, NextIsNew
  <1>9. sids + 1 \notin S
    BY <1>8 DEF S
  <1>10. FreshCopy(t)'
    <2>1. /\ store'[sids + 1] = store[sids + 1] /\ sids + 1 \notin ended'
          /\ \A p \in gone' : p[1] # sids + 1
      BY <1>0, <1>1, <1>8, <1>9, DestroyEffect DEF Writes
    <2>2. QED
      BY <1>1, <1>4, <1>8, <2>1 DEF FreshCopy
  <1>11. OwnIdentifier'
    <2>1. /\ \A x \in Tab \ {t} : req[x].sid # req'[t].sid
          /\ \A b \in Browser : cookie'[b] # req'[t].sid
      BY <1>1, <1>2, <1>8
    <2>2. \A x \in Tab \ {t} : Regenerated(x) =>
             /\ req'[t].sid # req[x].sid
             /\ \A b \in Browser : cookie'[b] # req[x].sid
      BY <1>0, <1>1, <1>2, <1>8 DEF OwnIdentifier
    <2>3. QED
      BY <1>0, <1>1, <2>1, <2>2, OwnRest
  <1>12. /\ sids' \in 0..MaxSid /\ sids <= sids' /\ req'[t].sid <= sids'
         /\ \A s \in req'[t].todo : s <= sids
    BY <1>1, <1>2, <1>5, <1>6 DEF Sid
  <1>13. QED
    BY <1>1, <1>2, <1>3, <1>7, <1>10, <1>11, <1>12, DestroyKeeps

LEMMA DeleteSessionKeeps ==
    ASSUME BaseInv, CopyInv, NEW t \in Tab, DeleteSession(t)
    PROVE  BaseInv' /\ CopyInv'
  <1>0. TypeOK /\ InStepAll /\ InStep(t) /\ Known /\ FreshCopy(t) /\ OwnIdentifier
    BY DEF BaseInv, CopyInv, InStepAll, FreshCopies
  <1>1. PICK s \in req[t].todo :
               /\ s \in Sid /\ Destroy({s}) /\ req' \in [Tab -> Request] /\ RestOf({t}, {s})
               /\ req'[t].op = req[t].op /\ req'[t].user = req[t].user
               /\ req'[t].todo = req[t].todo \ {s}
               /\ req'[t].at = IF req[t].todo = {s} THEN "save" ELSE "delete"
               /\ req'[t].sid = req[t].sid /\ req'[t].data = req[t].data
               /\ req'[t].limited = req[t].limited /\ req'[t].fresh = req[t].fresh
    BY <1>0, DeleteSessionEffect
  <1>2. UNCHANGED <<offer, cookie, adm, sids, now, late, out>> /\ req[t].at = "delete"
    BY DEF DeleteSession
  <1>3. Regenerated(t)' <=> Regenerated(t)
    BY <1>1 DEF Regenerated
  <1>4. InStep(t)'
    BY <1>0, <1>1, <1>2, <1>3 DEF InStep
  <1>5. FreshCopy(t)'
    <2>1. req[t].sid # s
      BY <1>0, <1>1 DEF InStep
    <2>2. /\ \A r \in Sid \ {s} : store'[r] = store[r] /\ (r \in ended' => r \in ended)
          /\ gone' \subseteq gone
      BY <1>0, <1>1, DestroyEffect DEF Writes
    <2>3. req[t].sid # 0 => req[t].sid \in Sid
      BY <1>0, SidOfRequest
    <2>4. QED
      BY <1>0, <1>1, <1>3, <2>1, <2>2, <2>3 DEF FreshCopy
  <1>6. OwnIdentifier'
    BY <1>0, <1>1, <1>2, <1>3, OwnSame
  <1>7. sids' \in 0..MaxSid /\ sids <= sids' /\ now' \in 0..MaxTime
    BY <1>0, <1>2, SessionAssumption DEF TypeOK
  <1>8. s <= sids /\ req'[t].sid <= sids' /\ \A r \in req'[t].todo : r <= sids
    BY <1>0, <1>1, <1>2 DEF Known
  <1>9. {s} \in SUBSET Sid /\ \A r \in {s} : r <= sids
    BY <1>1, <1>8
  <1>10. QED
    BY <1>1, <1>2, <1>4, <1>5, <1>6, <1>7, <1>8, <1>9, DestroyKeeps

LEMMA LogoutKeeps ==
    ASSUME BaseInv, CopyInv, NEW t \in Tab, Logout(t)
    PROVE  BaseInv' /\ CopyInv'
  <1>0. TypeOK /\ InStepAll /\ Known /\ OwnIdentifier
    BY DEF BaseInv, CopyInv, InStepAll, FreshCopies
  <1> DEFINE s == req[t].sid
  <1>1. /\ s \in Sid /\ Destroy({s})
        /\ req' \in [Tab -> Request] /\ RestOf({t}, {s}) /\ req'[t] = Idle
    BY <1>0, LogoutEffect
  <1>2. UNCHANGED <<offer, cookie, adm, sids, now, late, out>>
    BY DEF Logout
  <1>3. s <= sids
    BY <1>0 DEF Known
  <1> HIDE DEF s
  <1>4. InStep(t)' /\ FreshCopy(t)'
    BY <1>1 DEF InStep, FreshCopy, Regenerated, Idle, WayName
  <1>5. OwnIdentifier'
    BY <1>0, <1>1, <1>2, OwnIdle DEF OwnIdentifier
  <1>6. sids' \in 0..MaxSid /\ sids <= sids' /\ now' \in 0..MaxTime
    BY <1>0, <1>2, SessionAssumption DEF TypeOK
  <1>7. req'[t].sid <= sids' /\ \A r \in req'[t].todo : r <= sids
    BY <1>1, <1>6 DEF Idle
  <1>9. {s} \in SUBSET Sid /\ \A r \in {s} : r <= sids
    BY <1>1, <1>3
  <1>10. QED
    BY <1>1, <1>2, <1>4, <1>5, <1>6, <1>7, <1>9, DestroyKeeps

LEMMA RegenerateFailsKeeps ==
    ASSUME BaseInv, CopyInv, NEW t \in Tab, NEW w \in WayName, NEW u \in User, RegenerateFails(t, w, u)
    PROVE  BaseInv' /\ CopyInv'
  <1> DEFINE d == PutAccount(w, Empty, u)
  <1>0. TypeOK /\ InStepAll /\ InStep(t) /\ Known /\ FreshCopies /\ OwnIdentifier
    BY DEF BaseInv, CopyInv, InStepAll
  <1>1. /\ d \in SessionData
        /\ req' \in [Tab -> Request] /\ RestOf({t}, {})
        /\ req'[t].op = w /\ req'[t].user = u /\ req'[t].sid = sids + 1 /\ req'[t].data = d
        /\ req'[t].at = IF Ways[w].limit = "after" THEN "limit" ELSE "save"
        /\ req'[t].todo = req[t].todo
        /\ sids + 1 \in Sid /\ now' \in 0..MaxTime
    BY <1>0, RegenerateFailsEffect
  <1>2. /\ UNCHANGED <<offer, store, cookie, adm, ended, late, gone, out>>
        /\ sids' = sids + 1 /\ Ways[w].regen /\ req[t].at = "open"
    BY DEF RegenerateFails, Verified
  <1> HIDE DEF d
  <1>4. Regenerated(t)' /\ w # "none" /\ w # "revoke"
    BY <1>1, <1>2 DEF Regenerated, WayName
  <1>5. req[t].todo = {}
    BY <1>0, <1>2 DEF InStep
  <1>6. sids \in Nat /\ sids + 1 # 0
    BY <1>0 DEF TypeOK
  <1>7. InStep(t)'
    BY <1>1, <1>4, <1>5, <1>6 DEF InStep
  <1>8. /\ ~store[sids + 1].stored /\ sids + 1 \notin ended
        /\ \A p \in gone : p[1] # sids + 1
        /\ \A x \in Tab : req[x].sid # sids + 1
        /\ \A b \in Browser : cookie[b] # sids + 1
    BY <1>1, NextIsNew
  <1>10. FreshCopy(t)'
    BY <1>1, <1>2, <1>4, <1>8 DEF FreshCopy
  <1>11. OwnIdentifier'
    <2>1. /\ \A x \in Tab \ {t} : req[x].sid # req'[t].sid
          /\ \A b \in Browser : cookie'[b] # req'[t].sid
      BY <1>1, <1>2, <1>8
    <2>2. \A x \in Tab \ {t} : Regenerated(x) =>
             /\ req'[t].sid # req[x].sid
             /\ \A b \in Browser : cookie'[b] # req[x].sid
      BY <1>0, <1>1, <1>2, <1>8 DEF OwnIdentifier
    <2>3. QED
      BY <1>0, <1>1, <2>1, <2>2, OwnRest
  <1>12. sids' \in 0..MaxSid /\ sids <= sids' /\ req'[t].sid <= sids' /\ sids' \in Nat
    BY <1>1, <1>2, <1>6 DEF Sid
  <1>13. TypeOK'
    BY <1>0, <1>1, <1>2, <1>12 DEF TypeOK
  <1>14. InStepAll' /\ FreshCopies'
    BY <1>0, <1>1, <1>2, <1>7, <1>10, QuietWrites, RestInStep, RestFresh DEF InStepAll, FreshCopies
  <1>15. Known'
    <2>1. \A s \in req'[t].todo : s <= sids'
      BY <1>1, <1>5
    <2>2. \A s \in adm'.todo : s <= sids'
      <3>1. adm.todo \subseteq Sid
        BY <1>0 DEF TypeOK
      <3>2. QED
        BY <1>0, <1>2, <1>6, <3>1 DEF Known, Sid
    <2>3. \A b \in Browser : cookie'[b] <= sids'
      <3>1. \A b \in Browser : cookie[b] \in Nat
        BY <1>0, SessionAssumption DEF TypeOK
      <3>2. QED
        BY <1>0, <1>2, <1>6, <3>1 DEF Known
    <2>4. \A s \in Sid : store'[s].stored \/ s \in ended' => s <= sids'
      <3>1. \A s \in Sid : store'[s].stored \/ s \in ended' => s <= sids
        BY <1>0, <1>2 DEF Known
      <3>2. QED
        BY <1>2, <1>6, <3>1 DEF Sid
    <2>5. \A p \in gone' : p[1] <= sids'
      <3>1. \A p \in gone : p[1] \in Sid /\ p[1] <= sids
        BY <1>0 DEF TypeOK, Known
      <3>2. QED
        BY <1>2, <1>6, <3>1 DEF Sid
    <2>6. QED
      BY <1>0, <1>1, <1>12, <2>1, <2>2, <2>3, <2>4, <2>5, KnownRest
  <1>16. QED
    BY <1>11, <1>13, <1>14, <1>15 DEF BaseInv, CopyInv

LEMMA RevokeAllKeeps ==
    ASSUME BaseInv, CopyInv, RevokeAll
    PROVE  BaseInv' /\ CopyInv'
  <1> DEFINE S == adm.todo
  <1>0. TypeOK /\ InStepAll /\ Known /\ FreshCopies /\ OwnIdentifier
    BY DEF BaseInv, CopyInv
  <1>1. S \subseteq Sid /\ Destroy(S) /\ req' \in [Tab -> Request] /\ RestOf({}, S)
    BY <1>0, RevokeAllEffect
  <1>2. UNCHANGED <<offer, cookie, sids, now, late, out>> /\ adm' = NoRevocation
    BY DEF RevokeAll
  <1>a. \A s \in S : s <= sids
    BY <1>0 DEF Known
  <1> HIDE DEF S
  <1>3. /\ store' \in [Sid -> [stored : BOOLEAN, data : SessionData]]
        /\ Writes(S) /\ ended' \subseteq Sid /\ gone' \subseteq gone
        /\ \A s \in Sid : store'[s].stored => s \notin S /\ store'[s] = store[s]
        /\ ended' = ended \cup S
    BY <1>0, <1>1, DestroyEffect DEF Destroy
  <1>4. NoRevocation \in [user : User \cup {NoUser}, todo : SUBSET Sid] /\ NoRevocation.todo = {}
    BY DEF NoRevocation
  <1>5. TypeOK'
    BY <1>0, <1>1, <1>2, <1>3, <1>4 DEF TypeOK
  <1>6. \A x \in Tab : InStep(x)' /\ FreshCopy(x)'
    BY <1>0, <1>1, <1>3, RestInStep, RestFresh
  <1>7. \A x \in Tab : /\ req'[x].sid = req[x].sid /\ req'[x].todo = req[x].todo
                       /\ (Regenerated(x)' <=> Regenerated(x))
    BY <1>1 DEF RestOf, SameRequest, Regenerated
  <1>8. OwnIdentifier'
    BY <1>0, <1>2, <1>7 DEF OwnIdentifier
  <1>9. Known'
    BY <1>0, <1>2, <1>3, <1>4, <1>7, <1>a DEF Known
  <1>10. QED
    BY <1>5, <1>6, <1>8, <1>9 DEF BaseInv, CopyInv, InStepAll, FreshCopies

LEMMA StartRevokeKeeps ==
    ASSUME BaseInv, CopyInv, NEW u \in User, StartRevoke(u)
    PROVE  BaseInv' /\ CopyInv'
  <1>0. TypeOK /\ InStepAll /\ Known /\ FreshCopies /\ OwnIdentifier
    BY DEF BaseInv, CopyInv
  <1>1. /\ UNCHANGED <<offer, store, cookie, req, sids, now, ended, late, gone>>
        /\ adm' = [user |-> u, todo |-> SessionsOf(u)] /\ out' = out \cup {u}
    BY DEF StartRevoke, FindAll
  <1>2. SessionsOf(u) \subseteq Sid /\ \A s \in SessionsOf(u) : store[s].stored
    BY DEF SessionsOf
  <1>3. TypeOK'
    BY <1>0, <1>1, <1>2 DEF TypeOK
  <1>4. InStepAll' /\ FreshCopies' /\ OwnIdentifier'
    BY <1>0, <1>1 DEF InStepAll, InStep, FreshCopies, FreshCopy, OwnIdentifier, Regenerated
  <1>5. Known'
    BY <1>0, <1>1, <1>2 DEF Known
  <1>6. QED
    BY <1>3, <1>4, <1>5 DEF BaseInv, CopyInv

LEMMA ClearCookieKeeps ==
    ASSUME BaseInv, CopyInv, NEW b \in Browser, ClearCookie(b)
    PROVE  BaseInv' /\ CopyInv'
  <1>0. TypeOK /\ InStepAll /\ Known /\ FreshCopies /\ OwnIdentifier
    BY DEF BaseInv, CopyInv
  <1>1. /\ UNCHANGED <<offer, store, req, adm, sids, now, ended, late, gone, out>>
        /\ cookie' = [cookie EXCEPT ![b] = 0]
    BY DEF ClearCookie, history
  <1>2. 0 \in 0..MaxSid /\ sids \in Nat
    BY <1>0, SessionAssumption DEF TypeOK
  <1>3. TypeOK'
    BY <1>0, <1>1, <1>2 DEF TypeOK
  <1>4. \A c \in Browser : cookie'[c] = 0 \/ cookie'[c] = cookie[c]
    BY <1>0, <1>1 DEF TypeOK
  <1>5. InStepAll' /\ FreshCopies'
    BY <1>0, <1>1 DEF InStepAll, InStep, FreshCopies, FreshCopy, Regenerated
  <1>6. OwnIdentifier'
    <2>1. \A t \in Tab : Regenerated(t) => req[t].sid # 0
      BY <1>0 DEF InStepAll, InStep
    <2>2. QED
      BY <1>0, <1>1, <1>4, <2>1 DEF OwnIdentifier, Regenerated
  <1>7. Known'
    BY <1>0, <1>1, <1>2, <1>4 DEF Known
  <1>8. QED
    BY <1>3, <1>5, <1>6, <1>7 DEF BaseInv, CopyInv

\* The response of t ends with the copy d.
LEMMA SaveKeeps ==
    ASSUME BaseInv, CopyInv, NEW t \in Tab, NEW d \in SessionData, SaveSession(t, d),
           \A p \in gone' : p \in gone \/ (p[1] = SavedSid(t) /\ p \in Sid \X User),
           now' \in 0..MaxTime, out' \subseteq User, UNCHANGED <<offer, adm, ended>>
    PROVE  BaseInv' /\ CopyInv'
  <1> DEFINE s == SavedSid(t)
  <1>0. TypeOK /\ InStepAll /\ Known /\ FreshCopies /\ OwnIdentifier
    BY DEF BaseInv, CopyInv
  <1>1. /\ s \in Sid /\ s = IF req[t].sid = 0 THEN sids + 1 ELSE req[t].sid
        /\ req' \in [Tab -> Request] /\ RestOf({t}, {s}) /\ req'[t] = Idle
        /\ store' \in [Sid -> [stored : BOOLEAN, data : SessionData]]
        /\ \A r \in Sid \ {s} : store'[r] = store[r]
        /\ cookie' \in [Browser -> 0..MaxSid]
        /\ cookie'[BrowserOf[t]] = s
        /\ \A b \in Browser \ {BrowserOf[t]} : cookie'[b] = cookie[b]
        /\ sids' = IF req[t].sid = 0 THEN sids + 1 ELSE sids
        /\ sids' \in 0..MaxSid
        /\ late' = IF req[t].fresh THEN late ELSE late \cup {s}
    BY <1>0, SaveSessionEffect
  <1>2. \A p \in gone' : p \in gone \/ (p[1] = s /\ p \in Sid \X User)
    OBVIOUS
  <1> HIDE DEF s
  <1>3. late' \subseteq Sid /\ gone' \subseteq Sid \X User
    BY <1>0, <1>1, <1>2 DEF TypeOK
  <1>4. TypeOK'
    BY <1>0, <1>1, <1>3 DEF TypeOK
  <1>5. Writes({s})
    BY <1>1, <1>2 DEF Writes
  <1>6. InStep(t)' /\ FreshCopy(t)'
    BY <1>1 DEF InStep, FreshCopy, Regenerated, Idle, WayName
  <1>7. InStepAll' /\ FreshCopies'
    BY <1>0, <1>1, <1>5, <1>6, RestInStep, RestFresh DEF InStepAll, FreshCopies
  <1>8. /\ sids \in Nat /\ sids' \in Nat /\ sids <= sids' /\ s <= sids' /\ req[t].sid <= sids
        /\ BrowserOf[t] \in Browser
    BY <1>0, <1>1, SessionAssumption DEF TypeOK, Known, Sid
  <1>9. \A x \in Tab \ {t} : Regenerated(x) => \A b \in Browser : cookie'[b] # req[x].sid
    <2>1. SUFFICES ASSUME NEW x \in Tab \ {t}, Regenerated(x)
                   PROVE  \A b \in Browser : cookie'[b] # req[x].sid
      OBVIOUS
    <2>2. /\ \A b \in Browser : cookie[b] # req[x].sid
          /\ req[t].sid # req[x].sid
      BY <1>0, <2>1 DEF OwnIdentifier
    <2>3. s # req[x].sid
      <3>1. req[x].sid <= sids /\ req[x].sid \in Int
        BY <1>0, RequestFields DEF Known
      <3>2. QED
        BY <1>1, <1>8, <2>2, <3>1
    <2>4. QED
      BY <1>1, <2>2, <2>3
  <1>10. OwnIdentifier'
    BY <1>0, <1>1, <1>9, OwnIdle
  <1>11. Known'
    <2>1. req'[t].sid <= sids' /\ \A r \in req'[t].todo : r <= sids'
      BY <1>1, <1>8 DEF Idle
    <2>2. \A r \in adm'.todo : r <= sids'
      <3>1. adm.todo \subseteq Sid
        BY <1>0 DEF TypeOK
      <3>2. QED
        BY <1>0, <1>8, <3>1 DEF Known, Sid
    <2>3. \A b \in Browser : cookie'[b] <= sids'
      <3>1. \A b \in Browser : cookie[b] \in Nat /\ cookie[b] <= sids
        BY <1>0, SessionAssumption DEF TypeOK, Known
      <3>2. QED
        BY <1>1, <1>8, <3>1
    <2>4. \A r \in Sid : store'[r].stored \/ r \in ended' => r <= sids'
      <3>1. \A r \in Sid \ {s} : store'[r].stored \/ r \in ended' => r <= sids
        BY <1>0, <1>1 DEF Known
      <3>2. QED
        BY <1>8, <3>1 DEF Sid
    <2>5. \A p \in gone' : p[1] <= sids'
      <3>1. \A p \in gone : p[1] \in Sid /\ p[1] <= sids
        BY <1>0 DEF TypeOK, Known
      <3>2. QED
        BY <1>2, <1>8, <3>1 DEF Sid
    <2>6. QED
      BY <1>0, <1>1, <1>8, <2>1, <2>2, <2>3, <2>4, <2>5, KnownRest
  <1>12. QED
    BY <1>4, <1>7, <1>10, <1>11 DEF BaseInv, CopyInv

\* switchAccount, addAccount, removeAccount, other requests and the end of a
\* revocation: the request holds a stored session and ends with accounts of its copy.
Handled(t, d, R) ==
    /\ EndHandler(t, d, R) /\ d \in SessionData /\ R \subseteq User
    /\ Accounts(d) \subseteq Accounts(req[t].data) \ R
    /\ req[t].sid # 0 /\ ~Regenerated(t) /\ req[t].op \notin WayName

LEMMA HandlerEffect ==
    ASSUME BaseInv, NEW t \in Tab,
           \/ \E u \in User : SwitchAccount(t, u) \/ RemoveAccount(t, u)
           \/ AddAccount(t) \/ Visit(t) \/ EndRevoke(t)
    PROVE  \E d, R : Handled(t, d, R)
  <1> DEFINE c == req[t].data
  <1>0. TypeOK /\ InStep(t) /\ c \in SessionData
    BY RequestFields DEF BaseInv, InStepAll
  <1>1. Open(t) => req[t].sid # 0 /\ ~Regenerated(t) /\ req[t].op \notin WayName
    BY <1>0 DEF Open, InStep, Regenerated, WayName
  <1>2. ASSUME NEW u \in User, SwitchAccount(t, u)
        PROVE  Handled(t, SwitchUser(c, u), {})
    <2>1. Open(t) /\ u \in ToSet(c.others) /\ EndHandler(t, SwitchUser(c, u), {})
      BY <1>2 DEF SwitchAccount
    <2>2. SwitchUser(c, u) \in SessionData /\ Accounts(SwitchUser(c, u)) \subseteq Accounts(c)
      BY <1>0, <2>1, SwitchUserData
    <2>3. QED
      BY <1>1, <2>1, <2>2 DEF Handled
  <1>3. ASSUME NEW u \in User, RemoveAccount(t, u)
        PROVE  Handled(t, RemoveAuthenticatedUser(c, u), {u})
    <2>1. /\ Open(t) /\ u \in Accounts(c) /\ Len(c.others) > 0
          /\ EndHandler(t, RemoveAuthenticatedUser(c, u), {u})
      BY <1>3 DEF RemoveAccount
    <2>2. /\ RemoveAuthenticatedUser(c, u) \in SessionData
          /\ Accounts(RemoveAuthenticatedUser(c, u)) \subseteq Accounts(c) \ {u}
      BY <1>0, <2>1, RemoveUserData
    <2>3. QED
      BY <1>1, <2>1, <2>2 DEF Handled
  <1>4. ASSUME AddAccount(t)
        PROVE  Handled(t, [c EXCEPT !.intent = TRUE], {})
    <2> DEFINE e == [c EXCEPT !.intent = TRUE]
    <2>1. Open(t) /\ EndHandler(t, e, {})
      BY <1>4 DEF AddAccount
    <2>2. /\ e \in DataRecord /\ e.active = c.active /\ e.others = c.others
          /\ e.acct = c.acct /\ e.auth = c.auth
      BY <1>0, SessionDataIs DEF DataRecord
    <2> HIDE DEF e, c
    <2>3. e \in SessionData /\ Accounts(e) = Accounts(c)
      BY <1>0, <2>2, SessionDataIs DEF Consistent, Accounts
    <2>4. QED
      BY <1>1, <2>1, <2>3 DEF Handled, e, c
  <1>5. ASSUME Visit(t)
        PROVE  Handled(t, c, {})
    BY <1>0, <1>1, <1>5 DEF Visit, Handled
  <1>6. ASSUME EndRevoke(t)
        PROVE  Handled(t, c, {})
    <2>1. req[t].op = "revoke" /\ EndHandler(t, c, {})
      BY <1>6 DEF EndRevoke
    <2>2. req[t].sid # 0 /\ ~Regenerated(t) /\ req[t].op \notin WayName
      BY <1>0, <2>1 DEF InStep, Regenerated, WayName
    <2>3. QED
      BY <1>0, <2>1, <2>2 DEF Handled
  <1>7. QED
    BY <1>2, <1>3, <1>4, <1>5, <1>6

LEMMA HandledKeeps ==
    ASSUME BaseInv, CopyInv, NEW t \in Tab, NEW d, NEW R, Handled(t, d, R)
    PROVE  BaseInv' /\ CopyInv'
  <1>0. TypeOK /\ InStep(t)
    BY DEF BaseInv, InStepAll
  <1>1. /\ SaveSession(t, d) /\ d \in SessionData /\ R \subseteq User /\ req[t].sid # 0
        /\ gone' = gone \cup {<<req[t].sid, u>> : u \in R}
        /\ out' = IF d.acct = req[t].data.acct THEN out ELSE out \ {d.acct}
        /\ UNCHANGED <<offer, adm, now, ended>>
    BY DEF Handled, EndHandler
  <1>2. SavedSid(t) = req[t].sid /\ req[t].sid \in Sid
    BY <1>0, <1>1, SidOfRequest DEF SavedSid
  <1>3. \A p \in gone' : p \in gone \/ (p[1] = SavedSid(t) /\ p \in Sid \X User)
    BY <1>1, <1>2
  <1>4. now' \in 0..MaxTime /\ out' \subseteq User
    BY <1>0, <1>1 DEF TypeOK
  <1>5. QED
    BY <1>1, <1>3, <1>4, SaveKeeps

\* A sign-in that ends: FinishSignIn, or SignInHere with the copy it makes.
Finishes(t, w, d) ==
    /\ SaveSession(t, d) /\ SignedIn(t, w, d) /\ d \in SessionData /\ w \in WayName
    /\ now' \in 0..MaxTime
    /\ w \in Pending => d.acct = req[t].data.acct /\ ~Regenerated(t)
    /\ admitted \subseteq admitted'
    /\ \A v \in MfaUser \cap (Accounts(d) \ Accounts(req[t].data)) : <<BrowserOf[t], v>> \in admitted'
    /\ UNCHANGED <<offer, adm, ended>>

LEMMA FinishSignInEffect ==
    ASSUME BaseInv, NEW t \in Tab, FinishSignIn(t)
    PROVE  /\ Finishes(t, req[t].op, req[t].data) /\ Regenerated(t) /\ req[t].at = "save"
           /\ now' = now /\ admitted' = admitted
  <1>1. TypeOK
    BY DEF BaseInv
  <1>2. /\ SaveSession(t, req[t].data) /\ SignedIn(t, req[t].op, req[t].data)
        /\ req[t].at = "save" /\ req[t].op \in WayName /\ Ways[req[t].op].regen
        /\ UNCHANGED <<offer, adm, now, ended, admitted>>
    BY DEF FinishSignIn
  <1>3. req[t].op \notin Pending
    BY <1>2, WaysTable
  <1>4. now' \in 0..MaxTime /\ req[t].data \in SessionData
    BY <1>1, <1>2, RequestFields DEF TypeOK
  <1>5. QED
    BY <1>2, <1>3, <1>4 DEF Finishes, Regenerated

LEMMA SignInHereEffect ==
    ASSUME BaseInv, NEW t \in Tab, NEW w \in WayName, NEW u \in User, SignInHere(t, w, u)
    PROVE  LET d == PutAccount(w, req[t].data, u)
           IN  /\ Finishes(t, w, d) /\ Admit(t, w, u) /\ ~Regenerated(t)
               /\ Accounts(d) \subseteq Accounts(req[t].data) \cup (IF w \in Pending THEN {} ELSE {u})
               /\ w \in Pending => d.acct = req[t].data.acct
               /\ w = "continue" =>
                    d.acct = u \/ (req[t].data.active # NoUser /\ d = req[t].data)
               /\ w \in {"pending", "newDevice", "continue", "another", "recovered"}
               /\ w \in {"continue", "another"} => u \notin MfaUser
               /\ w = "continue" => req[t].at = "save" /\ req[t].op = w /\ req[t].user = u
               /\ w # "continue" => req[t].at = "open"
  <1> DEFINE c == req[t].data
             d == PutAccount(w, c, u)
  <1>0. TypeOK /\ InStep(t) /\ c \in SessionData
    BY RequestFields DEF BaseInv, InStepAll
  <1>1. /\ ~Ways[w].regen /\ Stamp(w) /\ SaveSession(t, d) /\ SignedIn(t, w, d) /\ Admit(t, w, u)
        /\ UNCHANGED <<offer, adm, ended>>
    BY DEF SignInHere
  <1>2. w \in {"pending", "newDevice", "continue", "another", "recovered"}
    BY <1>1, WaysTable DEF WayName
  <1>3. \/ req[t].at = "save" /\ req[t].op = w /\ req[t].user = u /\ w = "continue" /\ u \notin MfaUser
        \/ Verified(t, w, u) /\ w # "continue" /\ req[t].at = "open" /\ req[t].op = "none"
    <2>1. CASE req[t].at = "save" /\ req[t].op = w /\ req[t].user = u
      BY <1>0, <1>1, <2>1 DEF InStep, Regenerated
    <2>2. CASE Verified(t, w, u) /\ Ways[w].limit = "never"
      BY <1>0, <2>2, WaysTable DEF Verified, InStep
    <2>3. QED
      BY <2>1, <2>2 DEF SignInHere
  <1>4. /\ w = "pending" => u \in MfaUser
        /\ w \in {"continue", "another"} => u \notin MfaUser
    BY <1>2, <1>3 DEF Verified, OpenTo, OidcWays
  <1>5. now \in Nat /\ now \in 0..MaxTime /\ MaxTime \in Nat
    BY <1>0, SessionAssumption DEF TypeOK
  <1>6. (w \in Pending \/ Ways[w].put = "add" \/ now < MaxTime) /\ now' \in 0..MaxTime
    BY <1>1, <1>5 DEF Stamp
  <1>7. ~Regenerated(t)
    BY <1>1, <1>3 DEF Regenerated, WayName
  <1>8. /\ d \in SessionData
        /\ Accounts(d) \subseteq Accounts(c) \cup (IF w \in Pending THEN {} ELSE {u})
        /\ w \in Pending => d.acct = c.acct
        /\ w = "continue" => d.acct = u \/ (c.active # NoUser /\ d = c)
    BY <1>0, <1>4, <1>5, <1>6, PutAccountData
  <1> HIDE DEF c, d
  <1>a. admitted \subseteq admitted' /\ \A v \in MfaUser \cap (Accounts(d) \ Accounts(c)) : <<BrowserOf[t], v>> \in admitted'
    <2>1. admitted' = IF w \in {"code", "webauthn", "recovered", "device", "oidc", "oidcSocial"}
                         /\ u \in MfaUser
                      THEN admitted \cup {<<BrowserOf[t], u>>} ELSE admitted
      BY <1>1 DEF Admit
    <2>2. \A v \in MfaUser \cap (Accounts(d) \ Accounts(c)) : v = u /\ w = "recovered"
      BY <1>2, <1>4, <1>8, WaysTable
    <2>3. QED
      BY <2>1, <2>2
  <1>9. Finishes(t, w, d)
    BY <1>1, <1>6, <1>7, <1>8, <1>a DEF Finishes, c
  <1>10. QED
    BY <1>1, <1>2, <1>3, <1>4, <1>7, <1>8, <1>9 DEF c, d

LEMMA FinishesKeeps ==
    ASSUME BaseInv, CopyInv, NEW t \in Tab, NEW w, NEW d, Finishes(t, w, d)
    PROVE  BaseInv' /\ CopyInv'
  <1>1. gone' \subseteq gone /\ out' \subseteq out
    BY DEF Finishes, SignedIn
  <1>2. out' \subseteq User
    BY <1>1 DEF BaseInv, TypeOK
  <1>3. QED
    BY <1>1, <1>2, SaveKeeps DEF Finishes

LEMMA InitCopies == Init => BaseInv /\ CopyInv
  <1> SUFFICES ASSUME Init PROVE BaseInv /\ CopyInv
    OBVIOUS
  <1>1. None \in [stored : BOOLEAN, data : SessionData] /\ ~None.stored
    BY EmptyData DEF None
  <1>2. NoRevocation \in [user : User \cup {NoUser}, todo : SUBSET Sid] /\ NoRevocation.todo = {}
    BY DEF NoRevocation
  <1>3. 0 \in 0..MaxSid /\ 0 \in 0..MaxTime /\ offer \subseteq WayName
    BY SessionAssumption DEF Init
  <1>4. TypeOK
    BY <1>1, <1>2, <1>3, IdleRequest DEF Init, TypeOK
  <1>5. \A t \in Tab : req[t] = Idle
    BY DEF Init
  <1>6. \A t \in Tab : InStep(t) /\ FreshCopy(t) /\ ~Regenerated(t)
    BY <1>5, IdleInStep
  <1>7. Known
    BY <1>1, <1>2, <1>5 DEF Init, Known, Idle
  <1>8. QED
    BY <1>4, <1>6, <1>7 DEF BaseInv, CopyInv, InStepAll, FreshCopies, OwnIdentifier

LEMMA StutterCopies == BaseInv /\ CopyInv /\ UNCHANGED vars => (BaseInv /\ CopyInv)'
  <1> SUFFICES ASSUME BaseInv, CopyInv, UNCHANGED vars PROVE (BaseInv /\ CopyInv)'
    OBVIOUS
  <1>1. UNCHANGED <<offer, store, cookie, req, adm, sids, now, ended, late, gone, out>>
    BY DEF vars, history
  <1>2. TypeOK'
    BY <1>1 DEF BaseInv, TypeOK
  <1>3. InStepAll'
    BY <1>1 DEF BaseInv, InStepAll, InStep, Regenerated
  <1>4. CopyInv'
    BY <1>1 DEF CopyInv, Known, FreshCopies, FreshCopy, OwnIdentifier, Regenerated
  <1>5. QED
    BY <1>2, <1>3, <1>4 DEF BaseInv

LEMMA NextCopies == BaseInv /\ CopyInv /\ [Next]_vars => (BaseInv /\ CopyInv)'
  <1> SUFFICES ASSUME BaseInv, CopyInv, [Next]_vars PROVE (BaseInv /\ CopyInv)'
    OBVIOUS
  <1>1. ASSUME NEW t \in Tab, SignIn(t) PROVE (BaseInv /\ CopyInv)'
    BY <1>1, RegenerateKeeps, RegenerateFailsKeeps, FindExcessKeeps, LimitFailsKeeps, DeleteSessionKeeps,
       FinishSignInEffect, SignInHereEffect, FinishesKeeps DEF SignIn
  <1>2. ASSUME NEW t \in Tab, Handle(t) PROVE (BaseInv /\ CopyInv)'
    <2>1. CASE Logout(t)
      BY <2>1, LogoutKeeps
    <2>2. CASE FindOthers(t)
      BY <2>2, FindOthersKeeps
    <2>3. CASE \/ \E u \in User : SwitchAccount(t, u) \/ RemoveAccount(t, u)
               \/ AddAccount(t) \/ Visit(t) \/ EndRevoke(t)
      BY <2>3, HandlerEffect, HandledKeeps
    <2>4. QED
      BY <1>2, <2>1, <2>2, <2>3 DEF Handle
  <1>3. ASSUME NEW t \in Tab, Receive(t) \/ Abandon(t) PROVE (BaseInv /\ CopyInv)'
    BY <1>3, ReceiveKeeps, AbandonKeeps
  <1>4. ASSUME NEW b \in Browser, ClearCookie(b) PROVE (BaseInv /\ CopyInv)'
    BY <1>4, ClearCookieKeeps
  <1>5. ASSUME NEW u \in User, StartRevoke(u) PROVE (BaseInv /\ CopyInv)'
    BY <1>5, StartRevokeKeeps
  <1>6. CASE RevokeAll
    BY <1>6, RevokeAllKeeps
  <1>7. CASE UNCHANGED vars
    BY <1>7, StutterCopies
  <1>8. QED
    BY <1>1, <1>2, <1>3, <1>4, <1>5, <1>6, <1>7 DEF Next

LEMMA CopiesAlways == Spec => [](BaseInv /\ CopyInv)
  BY InitCopies, NextCopies, PTL DEF Spec

\* The variables have their types; in every session, stored or in a request,
\* accountId is the active account and no account is listed twice (SessionUtils).
THEOREM SessionTypes == Spec => []TypeOK
  <1>1. BaseInv => TypeOK
    BY DEF BaseInv
  <1>2. QED
    BY <1>1, CopiesAlways, PTL

-----------------------------------------------------------------------------
(* Removed accounts and ended sessions.                                    *)

\* A copy that is written in time is what was stored, or under a new identifier.
LEMMA FreshWrite ==
    ASSUME BaseInv, CopyInv, NEW t \in Tab, req[t].fresh, SavedSid(t) \in Sid
    PROVE  LET s == SavedSid(t)
           IN  \/ s \notin ended /\ (\A p \in gone : p[1] # s) /\ ~store[s].stored
                   /\ (req[t].sid = 0 \/ Regenerated(t))
               \/ s = req[t].sid /\ store[s].stored /\ store[s].data = req[t].data /\ ~Regenerated(t)
  <1>1. InStep(t) /\ FreshCopy(t)
    BY DEF BaseInv, CopyInv, InStepAll, FreshCopies
  <1>2. CASE req[t].sid = 0
    <2>1. SavedSid(t) = sids + 1
      BY <1>2 DEF SavedSid
    <2>2. QED
      BY <1>2, <2>1, NextIsNew
  <1>3. CASE req[t].sid # 0 /\ Regenerated(t)
    BY <1>1, <1>3 DEF SavedSid, FreshCopy
  <1>4. CASE req[t].sid # 0 /\ ~Regenerated(t)
    <2>1. SavedSid(t) = req[t].sid /\ store[req[t].sid] = Stored(req[t].data)
      BY <1>1, <1>4 DEF SavedSid, FreshCopy
    <2>2. QED
      BY <1>4, <2>1 DEF Stored
  <1>5. QED
    BY <1>2, <1>3, <1>4

LEMMA QuietStaysOut ==
    ASSUME RemovedStaysOut, UNCHANGED <<store, ended, late, gone>>
    PROVE  RemovedStaysOut'
  BY DEF RemovedStaysOut

LEMMA DestroyStaysOut ==
    ASSUME TypeOK, RemovedStaysOut, NEW S \in SUBSET Sid, Destroy(S), late' = late
    PROVE  RemovedStaysOut'
  <1>1. /\ \A s \in Sid : store'[s].stored => s \notin S /\ store'[s] = store[s]
        /\ ended' = ended \cup S /\ gone' \subseteq gone
    BY DestroyEffect DEF Destroy
  <1>2. QED
    BY <1>1 DEF RemovedStaysOut

LEMMA HandledStaysOut ==
    ASSUME BaseInv, CopyInv, RemovedStaysOut, NEW t \in Tab, NEW d, NEW R, Handled(t, d, R)
    PROVE  RemovedStaysOut'
  <1> DEFINE s == SavedSid(t)
             c == req[t].data
  <1>0. TypeOK
    BY DEF BaseInv
  <1>1. /\ SaveSession(t, d) /\ d \in SessionData /\ Accounts(d) \subseteq Accounts(c) \ R
        /\ req[t].sid # 0 /\ ~Regenerated(t)
        /\ gone' = gone \cup {<<req[t].sid, u>> : u \in R} /\ ended' = ended
    BY DEF Handled, EndHandler
  <1>2. /\ s \in Sid /\ store'[s].data = d
        /\ \A r \in Sid \ {s} : store'[r] = store[r]
        /\ late' = IF req[t].fresh THEN late ELSE late \cup {s}
    BY <1>0, <1>1, SaveSessionEffect
  <1>3. s = req[t].sid
    BY <1>1 DEF SavedSid
  <1>4. req[t].fresh => store[s].stored /\ store[s].data = c
    BY <1>1, <1>2, FreshWrite
  <1> HIDE DEF s, c
  <1>5. SUFFICES ASSUME NEW r \in Sid \ late', store'[r].stored
                 PROVE  r \notin ended' /\ \A u \in Accounts(store'[r].data) : <<r, u>> \notin gone'
    BY DEF RemovedStaysOut
  <1>6. CASE r # s
    BY <1>1, <1>2, <1>3, <1>5, <1>6 DEF RemovedStaysOut
  <1>7. CASE r = s
    <2>1. req[t].fresh /\ s \notin late
      BY <1>2, <1>5, <1>7
    <2>2. s \notin ended /\ \A u \in Accounts(c) : <<s, u>> \notin gone
      BY <1>2, <1>4, <2>1 DEF RemovedStaysOut
    <2>3. QED
      BY <1>1, <1>2, <1>3, <1>7, <2>2
  <1>8. QED
    BY <1>6, <1>7

LEMMA FinishesStaysOut ==
    ASSUME BaseInv, CopyInv, RemovedStaysOut, NEW t \in Tab, NEW w, NEW d, Finishes(t, w, d)
    PROVE  RemovedStaysOut'
  <1> DEFINE s == SavedSid(t)
             c == req[t].data
  <1>0. TypeOK
    BY DEF BaseInv
  <1>1. /\ SaveSession(t, d) /\ d \in SessionData /\ ended' = ended
        /\ gone' = gone \ {<<s, x>> : x \in Accounts(d) \ Accounts(c)}
    BY DEF Finishes, SignedIn
  <1>2. /\ s \in Sid /\ store'[s].data = d
        /\ \A r \in Sid \ {s} : store'[r] = store[r]
        /\ late' = IF req[t].fresh THEN late ELSE late \cup {s}
    BY <1>0, <1>1, SaveSessionEffect
  <1>3. req[t].fresh =>
          \/ s \notin ended /\ \A p \in gone : p[1] # s
          \/ store[s].stored /\ store[s].data = c
    BY <1>2, FreshWrite
  <1> HIDE DEF s, c
  <1>4. SUFFICES ASSUME NEW r \in Sid \ late', store'[r].stored
                 PROVE  r \notin ended' /\ \A u \in Accounts(store'[r].data) : <<r, u>> \notin gone'
    BY DEF RemovedStaysOut
  <1>5. CASE r # s
    BY <1>1, <1>2, <1>4, <1>5 DEF RemovedStaysOut
  <1>6. CASE r = s
    <2>1. req[t].fresh /\ s \notin late
      BY <1>2, <1>4, <1>6
    <2>2. s \notin ended /\ \A u \in Accounts(c) : <<s, u>> \notin gone
      BY <1>2, <1>3, <2>1 DEF RemovedStaysOut
    <2>3. QED
      BY <1>1, <1>2, <1>6, <2>2
  <1>7. QED
    BY <1>5, <1>6

LEMMA NextStaysOut ==
    BaseInv /\ CopyInv /\ RemovedStaysOut /\ [Next]_vars => RemovedStaysOut'
  <1> SUFFICES ASSUME BaseInv, CopyInv, RemovedStaysOut, [Next]_vars PROVE RemovedStaysOut'
    OBVIOUS
  <1>0. TypeOK
    BY DEF BaseInv
  <1>1. ASSUME NEW t \in Tab, SignIn(t) PROVE RemovedStaysOut'
    <2>1. ASSUME NEW w \in WayName, NEW u \in User, Regenerate(t, w, u) PROVE RemovedStaysOut'
      <3>1. {req[t].sid} \ {0} \subseteq Sid /\ Destroy({req[t].sid} \ {0}) /\ late' = late
        BY <1>0, <2>1, RegenerateEffect DEF Regenerate
      <3>2. QED
        BY <1>0, <3>1, DestroyStaysOut
    <2>2. ASSUME NEW w \in WayName, NEW u \in User, RegenerateFails(t, w, u) \/ FindExcess(t, w, u)
          PROVE  RemovedStaysOut'
      BY <2>2, QuietStaysOut DEF RegenerateFails, FindExcess, history
    <2>3. ASSUME NEW w \in WayName, NEW u \in User, SignInHere(t, w, u) PROVE RemovedStaysOut'
      BY <2>3, SignInHereEffect, FinishesStaysOut
    <2>4. CASE LimitFails(t)
      BY <2>4, QuietStaysOut DEF LimitFails, history
    <2>5. CASE DeleteSession(t)
      <3>1. PICK s \in req[t].todo : s \in Sid /\ Destroy({s})
        BY <1>0, <2>5, DeleteSessionEffect
      <3>2. {s} \in SUBSET Sid /\ late' = late
        BY <2>5, <3>1 DEF DeleteSession
      <3>3. QED
        BY <1>0, <3>1, <3>2, DestroyStaysOut
    <2>6. CASE FinishSignIn(t)
      BY <2>6, FinishSignInEffect, FinishesStaysOut
    <2>7. QED
      BY <1>1, <2>1, <2>2, <2>3, <2>4, <2>5, <2>6 DEF SignIn
  <1>2. ASSUME NEW t \in Tab, Handle(t) PROVE RemovedStaysOut'
    <2>1. CASE Logout(t)
      <3>1. {req[t].sid} \in SUBSET Sid /\ Destroy({req[t].sid}) /\ late' = late
        BY <1>0, <2>1, LogoutEffect DEF Logout
      <3>2. QED
        BY <1>0, <3>1, DestroyStaysOut
    <2>2. CASE FindOthers(t)
      BY <2>2, QuietStaysOut DEF FindOthers, history
    <2>3. CASE \/ \E u \in User : SwitchAccount(t, u) \/ RemoveAccount(t, u)
               \/ AddAccount(t) \/ Visit(t) \/ EndRevoke(t)
      BY <2>3, HandlerEffect, HandledStaysOut
    <2>4. QED
      BY <1>2, <2>1, <2>2, <2>3 DEF Handle
  <1>3. ASSUME NEW t \in Tab, Receive(t) \/ Abandon(t) PROVE RemovedStaysOut'
    BY <1>3, QuietStaysOut DEF Receive, Abandon, history
  <1>4. ASSUME NEW b \in Browser, ClearCookie(b) PROVE RemovedStaysOut'
    BY <1>4, QuietStaysOut DEF ClearCookie, history
  <1>5. ASSUME NEW u \in User, StartRevoke(u) PROVE RemovedStaysOut'
    BY <1>5, QuietStaysOut DEF StartRevoke
  <1>6. CASE RevokeAll
    <2>1. adm.todo \in SUBSET Sid /\ Destroy(adm.todo) /\ late' = late
      BY <1>0, <1>6, RevokeAllEffect DEF RevokeAll
    <2>2. QED
      BY <1>0, <2>1, DestroyStaysOut
  <1>7. CASE UNCHANGED vars
    BY <1>7, QuietStaysOut DEF vars, history
  <1>8. QED
    BY <1>1, <1>2, <1>3, <1>4, <1>5, <1>6, <1>7 DEF Next

\* An account that was removed from a session, or whose session was logged out,
\* revoked or replaced, is not in it again without a sign-in, unless a copy that
\* was out of date was written back (SessionUtils, express-session).
THEOREM RemovedForGood == Spec => []RemovedStaysOut
  <1>1. Init => RemovedStaysOut
    BY DEF Init, RemovedStaysOut, None
  <1>2. QED
    BY <1>1, NextStaysOut, CopiesAlways, PTL DEF Spec

-----------------------------------------------------------------------------
(* Revocation by an administrator.                                         *)

\* What a step can do to the stored sessions.
LEMMA StoreSteps ==
    ASSUME BaseInv, [Next]_vars
    PROVE  \/ UNCHANGED <<store, adm, late, out, free>>
           \/ \E S \in SUBSET Sid : Destroy(S) /\ UNCHANGED <<adm, late, out>>
           \/ \E u \in User : StartRevoke(u)
           \/ RevokeAll
           \/ \E t \in Tab : \E d, R : Handled(t, d, R)
           \/ \E t \in Tab : \E w, d : Finishes(t, w, d)
  <1> DEFINE Quiet == UNCHANGED <<store, adm, late, out, free>>
             Deletes == \E S \in SUBSET Sid : Destroy(S) /\ UNCHANGED <<adm, late, out>>
             Handles == \E t \in Tab : \E d, R : Handled(t, d, R)
             Ends == \E t \in Tab : \E w, d : Finishes(t, w, d)
  <1>0. TypeOK
    BY DEF BaseInv
  <1>1. ASSUME NEW t \in Tab, SignIn(t) PROVE Quiet \/ Deletes \/ Ends
    <2>1. ASSUME NEW w \in WayName, NEW u \in User, Regenerate(t, w, u) PROVE Deletes
      <3>1. {req[t].sid} \ {0} \subseteq Sid /\ Destroy({req[t].sid} \ {0}) /\ UNCHANGED <<adm, late, out>>
        BY <1>0, <2>1, RegenerateEffect DEF Regenerate
      <3>2. QED
        BY <3>1
    <2>2. ASSUME NEW w \in WayName, NEW u \in User, RegenerateFails(t, w, u) \/ FindExcess(t, w, u)
          PROVE  Quiet
      BY <2>2 DEF RegenerateFails, FindExcess, history
    <2>3. ASSUME NEW w \in WayName, NEW u \in User, SignInHere(t, w, u) PROVE Ends
      BY <2>3, SignInHereEffect
    <2>4. ASSUME LimitFails(t) PROVE Quiet
      BY <2>4 DEF LimitFails, history
    <2>5. ASSUME DeleteSession(t) PROVE Deletes
      <3>1. PICK s \in req[t].todo : s \in Sid /\ Destroy({s})
        BY <1>0, <2>5, DeleteSessionEffect
      <3>2. {s} \in SUBSET Sid /\ UNCHANGED <<adm, late, out>>
        BY <2>5, <3>1 DEF DeleteSession
      <3>3. QED
        BY <3>1, <3>2
    <2>6. ASSUME FinishSignIn(t) PROVE Ends
      BY <2>6, FinishSignInEffect
    <2> HIDE DEF Quiet, Deletes, Ends
    <2>7. QED
      BY <1>1, <2>1, <2>2, <2>3, <2>4, <2>5, <2>6 DEF SignIn
  <1>2. ASSUME NEW t \in Tab, Handle(t) PROVE Quiet \/ Deletes \/ Handles
    <2>1. ASSUME Logout(t) PROVE Deletes
      <3>1. {req[t].sid} \in SUBSET Sid /\ Destroy({req[t].sid}) /\ UNCHANGED <<adm, late, out>>
        BY <1>0, <2>1, LogoutEffect DEF Logout
      <3>2. QED
        BY <3>1
    <2>2. ASSUME FindOthers(t) PROVE Quiet
      BY <2>2 DEF FindOthers, history
    <2>3. ASSUME \/ \E u \in User : SwitchAccount(t, u) \/ RemoveAccount(t, u)
                 \/ AddAccount(t) \/ Visit(t) \/ EndRevoke(t)
          PROVE  Handles
      BY <2>3, HandlerEffect
    <2> HIDE DEF Quiet, Deletes, Handles
    <2>4. QED
      BY <1>2, <2>1, <2>2, <2>3 DEF Handle
  <1>3. ASSUME NEW t \in Tab, Receive(t) \/ Abandon(t) PROVE Quiet
    BY <1>3 DEF Receive, Abandon, history
  <1>4. ASSUME NEW b \in Browser, ClearCookie(b) PROVE Quiet
    BY <1>4 DEF ClearCookie, history
  <1>5. ASSUME UNCHANGED vars PROVE Quiet
    BY <1>5 DEF vars, history
  <1>6. Quiet \/ Deletes \/ Handles \/ Ends \/ RevokeAll \/ \E u \in User : StartRevoke(u)
    <2> HIDE DEF Quiet, Deletes, Handles, Ends
    <2>1. QED
      BY <1>1, <1>2, <1>3, <1>4, <1>5 DEF Next
  <1>7. QED
    BY <1>6

LEMMA DestroyRevoked ==
    ASSUME TypeOK, RevocationPending, NEW S \in SUBSET Sid, Destroy(S),
           UNCHANGED <<late, out>>, adm' = adm \/ (S = adm.todo /\ adm' = NoRevocation)
    PROVE  RevocationPending'
  <1>1. \A s \in Sid : store'[s].stored => s \notin S /\ store'[s] = store[s]
    BY DestroyEffect
  <1>2. \A u \in out : SessionsOf(u)' \subseteq SessionsOf(u) \ S
    BY <1>1 DEF SessionsOf
  <1>3. QED
    BY <1>2 DEF RevocationPending

LEMMA StartRevoked ==
    ASSUME TypeOK, RevocationPending, NEW u \in User, StartRevoke(u)
    PROVE  RevocationPending'
  <1>1. /\ adm = NoRevocation /\ adm'.user = u /\ adm'.todo = SessionsOf(u) /\ out' = out \cup {u}
        /\ store' = store /\ late' = late
    BY DEF StartRevoke, FindAll
  <1>2. adm.user = NoUser /\ NoUser \notin User /\ out \subseteq User
    BY <1>1, SessionAssumption DEF NoRevocation, TypeOK
  <1>3. SUFFICES ASSUME NEW v \in out'
                 PROVE  SessionsOf(v)' \subseteq late' \cup (IF adm'.user = v THEN adm'.todo ELSE {})
    BY DEF RevocationPending
  <1>4. SessionsOf(v)' = SessionsOf(v)
    BY <1>1 DEF SessionsOf
  <1>5. CASE v = u
    BY <1>1, <1>4, <1>5
  <1>6. CASE v # u
    BY <1>1, <1>2, <1>4, <1>6 DEF RevocationPending
  <1>7. QED
    BY <1>5, <1>6

\* A copy whose accountId was stored already, or who is not revoked any more.
LEMMA SavedRevoked ==
    ASSUME TypeOK, RevocationPending, NEW t \in Tab, NEW d \in SessionData, SaveSession(t, d),
           adm' = adm, out' \subseteq out,
           LET s == SavedSid(t)
           IN  req[t].fresh /\ d.acct \in out' => store[s].stored /\ store[s].data.acct = d.acct
    PROVE  RevocationPending'
  <1> DEFINE s == SavedSid(t)
  <1>1. /\ s \in Sid /\ store'[s].data = d
        /\ \A r \in Sid \ {s} : store'[r] = store[r]
        /\ late' = IF req[t].fresh THEN late ELSE late \cup {s}
    BY SaveSessionEffect
  <1>2. req[t].fresh /\ d.acct \in out' => store[s].stored /\ store[s].data.acct = d.acct
    OBVIOUS
  <1> HIDE DEF s
  <1>3. SUFFICES ASSUME NEW v \in out', NEW r \in SessionsOf(v)'
                 PROVE  r \in late' \cup (IF adm'.user = v THEN adm'.todo ELSE {})
    BY DEF RevocationPending
  <1>4. r \in Sid /\ store'[r].stored /\ store'[r].data.acct = v
    BY DEF SessionsOf
  <1>5. CASE r = s /\ ~req[t].fresh
    BY <1>1, <1>5
  <1>6. CASE r # s \/ req[t].fresh
    <2>1. r \in SessionsOf(v)
      BY <1>1, <1>2, <1>4, <1>6 DEF SessionsOf
    <2>2. r \in late \cup (IF adm.user = v THEN adm.todo ELSE {})
      BY <2>1 DEF RevocationPending
    <2>3. QED
      BY <1>1, <2>2
  <1>7. QED
    BY <1>5, <1>6

LEMMA HandledRevoked ==
    ASSUME BaseInv, CopyInv, RevocationPending, NEW t \in Tab, NEW d, NEW R, Handled(t, d, R)
    PROVE  RevocationPending'
  <1>1. TypeOK
    BY DEF BaseInv
  <1>2. /\ SaveSession(t, d) /\ d \in SessionData /\ adm' = adm
        /\ out' = IF d.acct = req[t].data.acct THEN out ELSE out \ {d.acct}
        /\ req[t].sid # 0 /\ ~Regenerated(t)
    BY DEF Handled, EndHandler
  <1>3. SavedSid(t) \in Sid
    BY <1>1, <1>2, SaveSessionEffect
  <1>4. req[t].fresh => store[SavedSid(t)].stored /\ store[SavedSid(t)].data = req[t].data
    BY <1>2, <1>3, FreshWrite
  <1>5. QED
    BY <1>1, <1>2, <1>4, SavedRevoked

LEMMA FinishesRevoked ==
    ASSUME BaseInv, CopyInv, RevocationPending, NEW t \in Tab, NEW w, NEW d, Finishes(t, w, d)
    PROVE  RevocationPending'
  <1>1. TypeOK /\ InStep(t)
    BY DEF BaseInv, InStepAll
  <1>2. /\ SaveSession(t, d) /\ d \in SessionData /\ adm' = adm
        /\ out' = IF w \in Pending THEN out ELSE out \ {d.acct}
        /\ w \in Pending => d.acct = req[t].data.acct /\ ~Regenerated(t)
    BY DEF Finishes, SignedIn
  <1>3. SavedSid(t) \in Sid
    BY <1>1, <1>2, SaveSessionEffect
  <1>4. req[t].fresh /\ w \in Pending /\ req[t].sid # 0 =>
          store[SavedSid(t)].stored /\ store[SavedSid(t)].data = req[t].data
    BY <1>2, <1>3, FreshWrite
  <1>5. req[t].sid = 0 => req[t].data.acct = NoUser
    BY <1>1, EmptyData DEF InStep
  <1>6. NoUser \notin out
    BY <1>1, SessionAssumption DEF TypeOK
  <1>7. QED
    BY <1>1, <1>2, <1>4, <1>5, <1>6, SavedRevoked

LEMMA NextRevoked ==
    BaseInv /\ CopyInv /\ RevocationPending /\ [Next]_vars => RevocationPending'
  <1> SUFFICES ASSUME BaseInv, CopyInv, RevocationPending, [Next]_vars PROVE RevocationPending'
    OBVIOUS
  <1>0. TypeOK
    BY DEF BaseInv
  <1>1. CASE UNCHANGED <<store, adm, late, out, free>>
    BY <1>1 DEF RevocationPending, SessionsOf
  <1>2. CASE \E S \in SUBSET Sid : Destroy(S) /\ UNCHANGED <<adm, late, out>>
    BY <1>0, <1>2, DestroyRevoked
  <1>3. CASE \E u \in User : StartRevoke(u)
    BY <1>0, <1>3, StartRevoked
  <1>4. CASE RevokeAll
    <2>1. /\ adm.todo \in SUBSET Sid /\ Destroy(adm.todo) /\ UNCHANGED <<late, out>>
          /\ adm' = NoRevocation
      BY <1>0, <1>4, RevokeAllEffect DEF RevokeAll
    <2>2. QED
      BY <1>0, <2>1, DestroyRevoked
  <1>5. CASE \E t \in Tab : \E d, R : Handled(t, d, R)
    BY <1>5, HandledRevoked
  <1>6. CASE \E t \in Tab : \E w, d : Finishes(t, w, d)
    BY <1>6, FinishesRevoked
  <1>7. QED
    BY <1>1, <1>2, <1>3, <1>4, <1>5, <1>6, StoreSteps

\* Once the sessions of a user are revoked none acts as the user until the user
\* signs in or is switched to, copies that were out of date apart
\* (revokeAllSessionsForUser).
THEOREM RevokedForGood == Spec => []RevocationComplete
  <1>1. Init => RevocationPending
    BY DEF Init, RevocationPending
  <1>2. RevocationPending => RevocationComplete
    BY DEF RevocationPending, RevocationComplete
  <1>3. QED
    BY <1>1, <1>2, NextRevoked, CopiesAlways, PTL DEF Spec

-----------------------------------------------------------------------------
(* The second factor.                                                      *)

FactorInv == Separate /\ FactorInCopies /\ SecondFactorKept

\* All but the request of t stays, sessions that are deleted apart.
LEMMA FactorRest ==
    ASSUME TypeOK, FactorInv, NEW t \in Tab, NEW S, RestOf({t}, S), cookie' = cookie,
           admitted \subseteq admitted', \A s \in Sid : store'[s].stored => store'[s] = store[s],
           \A v \in Accounts(req'[t].data) \cap MfaUser : <<BrowserOf[t], v>> \in admitted',
           req'[t].sid # 0 =>
               /\ \A b \in Browser : cookie[b] = req'[t].sid => b = BrowserOf[t]
               /\ \A x \in Tab \ {t} : req[x].sid = req'[t].sid => BrowserOf[x] = BrowserOf[t]
    PROVE  FactorInv'
  <1>1. \A x \in Tab \ {t} : req'[x].sid = req[x].sid /\ req'[x].data = req[x].data
    BY DEF RestOf, SameRequest
  <1>2. FactorInCopies'
    BY <1>1 DEF FactorInv, FactorInCopies
  <1>3. SecondFactorKept'
    <2>1. \A b \in Browser : cookie[b] # 0 => cookie[b] \in Sid
      BY SessionAssumption DEF TypeOK, Sid
    <2>2. QED
      BY <2>1 DEF FactorInv, SecondFactorKept
  <1>4. Separate'
    <2>1. ASSUME NEW x \in Tab, req'[x].sid # 0
          PROVE  \A b \in Browser : cookie'[b] = req'[x].sid => b = BrowserOf[x]
      BY <1>1, <2>1 DEF FactorInv, Separate
    <2>2. ASSUME NEW x \in Tab, NEW y \in Tab, req'[x].sid # 0, req'[y].sid = req'[x].sid
          PROVE  BrowserOf[y] = BrowserOf[x]
      BY <1>1, <2>2 DEF FactorInv, Separate
    <2>3. QED
      BY <2>1, <2>2 DEF FactorInv, Separate
  <1>5. QED
    BY <1>2, <1>3, <1>4 DEF FactorInv

\* Every request stays what it is about; sessions are deleted, cookies cleared.
LEMMA FactorQuiet ==
    ASSUME TypeOK, FactorInv, admitted' = admitted,
           \A x \in Tab : req'[x].sid = req[x].sid /\ req'[x].data = req[x].data,
           \A b \in Browser : cookie'[b] = 0 \/ cookie'[b] = cookie[b],
           \A s \in Sid : store'[s].stored => store'[s] = store[s]
    PROVE  FactorInv'
  <1>1. FactorInCopies'
    BY DEF FactorInv, FactorInCopies
  <1>2. SecondFactorKept'
    <2>1. \A b \in Browser : cookie[b] # 0 => cookie[b] \in Sid
      BY SessionAssumption DEF TypeOK, Sid
    <2>2. QED
      BY <2>1 DEF FactorInv, SecondFactorKept
  <1>3. Separate'
    BY DEF FactorInv, Separate
  <1>4. QED
    BY <1>1, <1>2, <1>3 DEF FactorInv

LEMMA FactorSave ==
    ASSUME BaseInv, CopyInv, FactorInv, NEW t \in Tab, NEW d \in SessionData, SaveSession(t, d),
           admitted \subseteq admitted',
           \A v \in Accounts(d) \cap MfaUser : <<BrowserOf[t], v>> \in admitted'
    PROVE  FactorInv'
  <1> DEFINE s == SavedSid(t)
             o == BrowserOf[t]
  <1>0. TypeOK
    BY DEF BaseInv
  <1>1. /\ s \in Sid /\ RestOf({t}, {s}) /\ req'[t] = Idle
        /\ s = IF req[t].sid = 0 THEN sids + 1 ELSE req[t].sid
        /\ store'[s].data = d /\ \A r \in Sid \ {s} : store'[r] = store[r]
        /\ cookie'[o] = s /\ \A b \in Browser \ {o} : cookie'[b] = cookie[b]
    BY <1>0, SaveSessionEffect
  <1>2. \/ req[t].sid # 0 /\ s = req[t].sid
        \/ (\A x \in Tab : req[x].sid # s) /\ \A b \in Browser : cookie[b] # s
    BY <1>1, NextIsNew
  <1> HIDE DEF s
  <1>a. o \in Browser
    BY SessionAssumption
  <1>3. /\ \A x \in Tab : req[x].sid = s => BrowserOf[x] = o
        /\ \A b \in Browser : cookie[b] = s => b = o
    BY <1>2 DEF FactorInv, Separate
  <1>4. \A x \in Tab \ {t} : req'[x].sid = req[x].sid /\ req'[x].data = req[x].data
    BY <1>1 DEF RestOf, SameRequest
  <1>5. req'[t].sid = 0 /\ Accounts(req'[t].data) = {}
    BY <1>1, EmptyData DEF Idle
  <1>6. FactorInCopies'
    BY <1>4, <1>5 DEF FactorInv, FactorInCopies
  <1>7. SecondFactorKept'
    <2>1. SUFFICES ASSUME NEW b \in Browser, cookie'[b] # 0, store'[cookie'[b]].stored,
                          NEW v \in Accounts(store'[cookie'[b]].data) \cap MfaUser
                   PROVE  <<b, v>> \in admitted'
      BY DEF SecondFactorKept
    <2>2. CASE b = o
      BY <1>1, <2>1, <2>2
    <2>3. CASE b # o
      <3>1. cookie'[b] = cookie[b] /\ cookie[b] # s /\ cookie[b] \in Sid
        BY <1>0, <1>1, <1>3, <2>1, <2>3, SessionAssumption DEF TypeOK, Sid
      <3>2. store'[cookie'[b]] = store[cookie[b]]
        BY <1>1, <3>1
      <3>3. QED
        BY <2>1, <3>1, <3>2 DEF FactorInv, SecondFactorKept
    <2>4. QED
      BY <2>2, <2>3
  <1>8. Separate'
    <2>1. ASSUME NEW b \in Browser, NEW c \in Browser, cookie'[b] = cookie'[c], cookie'[b] # 0
          PROVE  b = c
      BY <1>1, <1>3, <2>1 DEF FactorInv, Separate
    <2>2. ASSUME NEW x \in Tab, req'[x].sid # 0
          PROVE  /\ \A b \in Browser : cookie'[b] = req'[x].sid => b = BrowserOf[x]
                 /\ \A y \in Tab : req'[y].sid = req'[x].sid => BrowserOf[y] = BrowserOf[x]
      <3>1. x # t /\ req'[x].sid = req[x].sid
        BY <1>4, <1>5, <2>2
      <3>2. ASSUME NEW b \in Browser, cookie'[b] = req[x].sid PROVE b = BrowserOf[x]
        BY <1>1, <1>3, <2>2, <3>1, <3>2 DEF FactorInv, Separate
      <3>3. ASSUME NEW y \in Tab, req'[y].sid = req[x].sid PROVE BrowserOf[y] = BrowserOf[x]
        BY <1>4, <1>5, <2>2, <3>1, <3>3 DEF FactorInv, Separate
      <3>4. QED
        BY <3>1, <3>2, <3>3
    <2>3. QED
      BY <2>1, <2>2 DEF Separate
  <1>9. QED
    BY <1>6, <1>7, <1>8 DEF FactorInv

\* A sign-in under a new identifier has the factor behind it, or there is none.
LEMMA FactorPassed ==
    ASSUME NEW t \in Tab, NEW w \in WayName, NEW u \in User,
           Verified(t, w, u), Ways[w].regen, Admit(t, w, u)
    PROVE  admitted \subseteq admitted' /\ (u \in MfaUser => <<BrowserOf[t], u>> \in admitted')
  <1>1. w \in {"password", "code", "webauthn", "social", "socialTo", "oidc",
                                "oidcSocial", "device"}
    BY WaysTable DEF WayName
  <1>2. u \in MfaUser => w \in {"code", "webauthn", "oidc", "oidcSocial", "device"}
    BY <1>1 DEF Verified, OpenTo, OidcWays
  <1>3. QED
    BY <1>2 DEF Admit

LEMMA RegenerateFactor ==
    ASSUME BaseInv, CopyInv, FactorInv, NEW t \in Tab, NEW w \in WayName, NEW u \in User,
           Regenerate(t, w, u) \/ RegenerateFails(t, w, u)
    PROVE  FactorInv'
  <1> DEFINE n == sids + 1
  <1>0. TypeOK
    BY DEF BaseInv
  <1>1. Verified(t, w, u) /\ Ways[w].regen /\ Admit(t, w, u) /\ cookie' = cookie
    BY DEF Regenerate, RegenerateFails
  <1>2. admitted \subseteq admitted' /\ (u \in MfaUser => <<BrowserOf[t], u>> \in admitted')
    BY <1>1, FactorPassed
  <1>3. /\ n \in Sid /\ req'[t].sid = n /\ Accounts(req'[t].data) \subseteq Accounts(req[t].data) \cup {u}
        /\ \E S : RestOf({t}, S)
        /\ \A s \in Sid : store'[s].stored => store'[s] = store[s]
    <2>1. CASE Regenerate(t, w, u)
      <3>1. /\ n \in Sid /\ req'[t].sid = n
            /\ Accounts(req'[t].data) \subseteq Accounts(req[t].data) \cup {u}
            /\ RestOf({t}, {req[t].sid} \ {0})
            /\ {req[t].sid} \ {0} \in SUBSET Sid /\ Destroy({req[t].sid} \ {0})
        BY <1>0, <2>1, RegenerateEffect
      <3>2. \A s \in Sid : store'[s].stored => store'[s] = store[s]
        BY <1>0, <3>1, DestroyEffect
      <3>3. QED
        BY <3>1, <3>2
    <2>2. CASE RegenerateFails(t, w, u)
      <3>1. /\ n \in Sid /\ req'[t].sid = n /\ Accounts(req'[t].data) \subseteq {u}
            /\ RestOf({t}, {})
        BY <1>0, <2>2, RegenerateFailsEffect
      <3>2. store' = store
        BY <2>2 DEF RegenerateFails
      <3>3. QED
        BY <3>1, <3>2
    <2>3. QED
      BY <2>1, <2>2
  <1>4. (\A x \in Tab : req[x].sid # n) /\ \A b \in Browser : cookie[b] # n
    BY <1>3, NextIsNew
  <1> HIDE DEF n
  <1>5. \A v \in Accounts(req'[t].data) \cap MfaUser : <<BrowserOf[t], v>> \in admitted'
    BY <1>2, <1>3 DEF FactorInv, FactorInCopies
  <1>6. PICK S : RestOf({t}, S)
    BY <1>3
  <1>7. QED
    BY <1>0, <1>1, <1>2, <1>3, <1>4, <1>5, <1>6, FactorRest

LEMMA ReceiveFactor ==
    ASSUME TypeOK, FactorInv, NEW t \in Tab, Receive(t)
    PROVE  FactorInv'
  <1>1. RestOf({t}, {}) /\ req'[t].sid = Session(t) /\ req'[t].data = Copy(t)
    BY ReceiveEffect
  <1>2. UNCHANGED <<store, cookie, admitted>>
    BY DEF Receive, history
  <1>3. BrowserOf[t] \in Browser
    BY SessionAssumption
  <1>4. CASE Session(t) = 0
    BY <1>1, <1>2, <1>4, SessionOfTab, EmptyData, FactorRest
  <1>5. CASE Session(t) # 0
    <2> DEFINE s == cookie[BrowserOf[t]]
    <2>1. req'[t].sid = s /\ s # 0 /\ store[s].stored /\ req'[t].data = store[s].data
      BY <1>1, <1>5, SessionOfTab
    <2>2. \A v \in Accounts(store[s].data) \cap MfaUser : <<BrowserOf[t], v>> \in admitted
      BY <1>3, <2>1 DEF FactorInv, SecondFactorKept
    <2>3. /\ \A b \in Browser : cookie[b] = s => b = BrowserOf[t]
          /\ \A x \in Tab \ {t} : req[x].sid = s => BrowserOf[x] = BrowserOf[t]
      BY <1>3, <2>1 DEF FactorInv, Separate
    <2> HIDE DEF s
    <2>4. QED
      BY <1>1, <1>2, <2>1, <2>2, <2>3, FactorRest
  <1>6. QED
    BY <1>4, <1>5

\* The request of t stays what it is about, or ends; sessions may be deleted.
LEMMA FactorSame ==
    ASSUME TypeOK, FactorInv, NEW t \in Tab, NEW S, RestOf({t}, S), cookie' = cookie, admitted' = admitted,
           \A s \in Sid : store'[s].stored => store'[s] = store[s],
           (req'[t].sid = req[t].sid /\ req'[t].data = req[t].data) \/ req'[t] = Idle
    PROVE  FactorInv'
  <1>1. CASE req'[t] = Idle
    BY <1>1, EmptyData, FactorRest DEF Idle
  <1>2. CASE req'[t].sid = req[t].sid /\ req'[t].data = req[t].data
    <2>1. \A v \in Accounts(req'[t].data) \cap MfaUser : <<BrowserOf[t], v>> \in admitted'
      BY <1>2 DEF FactorInv, FactorInCopies
    <2>2. req'[t].sid # 0 =>
             /\ \A b \in Browser : cookie[b] = req'[t].sid => b = BrowserOf[t]
             /\ \A x \in Tab \ {t} : req[x].sid = req'[t].sid => BrowserOf[x] = BrowserOf[t]
      BY <1>2 DEF FactorInv, Separate
    <2>3. QED
      BY <2>1, <2>2, FactorRest
  <1>3. QED
    BY <1>1, <1>2

LEMMA SignInFactor ==
    ASSUME BaseInv, CopyInv, FactorInv, NEW t \in Tab, SignIn(t)
    PROVE  FactorInv'
  <1>0. TypeOK
    BY DEF BaseInv
  <1>1. ASSUME NEW w, NEW d, Finishes(t, w, d) PROVE FactorInv'
    <2>1. /\ SaveSession(t, d) /\ d \in SessionData /\ admitted \subseteq admitted'
          /\ \A v \in MfaUser \cap (Accounts(d) \ Accounts(req[t].data)) : <<BrowserOf[t], v>> \in admitted'
      BY <1>1 DEF Finishes
    <2>2. \A v \in Accounts(d) \cap MfaUser : <<BrowserOf[t], v>> \in admitted'
      BY <2>1 DEF FactorInv, FactorInCopies
    <2>3. QED
      BY <2>1, <2>2, FactorSave
  <1>2. ASSUME NEW w \in WayName, NEW u \in User, Regenerate(t, w, u) \/ RegenerateFails(t, w, u)
        PROVE  FactorInv'
    BY <1>2, RegenerateFactor
  <1>3. ASSUME NEW w \in WayName, NEW u \in User, FindExcess(t, w, u) PROVE FactorInv'
    <2>1. RestOf({t}, {}) /\ req'[t].sid = req[t].sid /\ req'[t].data = req[t].data
      BY <1>0, <1>3, FindExcessEffect
    <2>2. UNCHANGED <<store, cookie, admitted>>
      BY <1>3 DEF FindExcess, history
    <2>3. QED
      BY <1>0, <2>1, <2>2, FactorSame
  <1>4. ASSUME NEW w \in WayName, NEW u \in User, SignInHere(t, w, u) PROVE FactorInv'
    BY <1>1, <1>4, SignInHereEffect
  <1>5. CASE LimitFails(t)
    <2>1. RestOf({t}, {}) /\ req'[t].sid = req[t].sid /\ req'[t].data = req[t].data
      BY <1>0, <1>5, LimitFailsEffect
    <2>2. UNCHANGED <<store, cookie, admitted>>
      BY <1>5 DEF LimitFails, history
    <2>3. QED
      BY <1>0, <2>1, <2>2, FactorSame
  <1>6. CASE DeleteSession(t)
    <2>1. PICK s \in req[t].todo :
            /\ s \in Sid /\ Destroy({s}) /\ RestOf({t}, {s})
            /\ req'[t].sid = req[t].sid /\ req'[t].data = req[t].data
      BY <1>0, <1>6, DeleteSessionEffect
    <2>2. {s} \in SUBSET Sid /\ UNCHANGED <<cookie, admitted>>
      BY <1>6, <2>1 DEF DeleteSession
    <2>3. \A r \in Sid : store'[r].stored => store'[r] = store[r]
      BY <1>0, <2>1, <2>2, DestroyEffect
    <2>4. QED
      BY <1>0, <2>1, <2>2, <2>3, FactorSame
  <1>7. CASE FinishSignIn(t)
    BY <1>1, <1>7, FinishSignInEffect
  <1>8. QED
    BY <1>2, <1>3, <1>4, <1>5, <1>6, <1>7 DEF SignIn

LEMMA HandleFactor ==
    ASSUME BaseInv, CopyInv, FactorInv, NEW t \in Tab, Handle(t)
    PROVE  FactorInv'
  <1>0. TypeOK
    BY DEF BaseInv
  <1>1. CASE Logout(t)
    <2>1. /\ {req[t].sid} \in SUBSET Sid /\ Destroy({req[t].sid})
          /\ RestOf({t}, {req[t].sid}) /\ req'[t] = Idle
      BY <1>0, <1>1, LogoutEffect
    <2>2. UNCHANGED <<cookie, admitted>>
      BY <1>1 DEF Logout
    <2>3. \A r \in Sid : store'[r].stored => store'[r] = store[r]
      BY <1>0, <2>1, DestroyEffect
    <2>4. QED
      BY <1>0, <2>1, <2>2, <2>3, FactorSame
  <1>2. CASE FindOthers(t)
    <2>1. RestOf({t}, {}) /\ req'[t].sid = req[t].sid /\ req'[t].data = req[t].data
      BY <1>0, <1>2, FindOthersEffect
    <2>2. UNCHANGED <<store, cookie, admitted>>
      BY <1>2 DEF FindOthers, history
    <2>3. QED
      BY <1>0, <2>1, <2>2, FactorSame
  <1>3. ASSUME NEW d, NEW R, Handled(t, d, R) PROVE FactorInv'
    <2>1. /\ SaveSession(t, d) /\ d \in SessionData /\ admitted' = admitted
          /\ Accounts(d) \subseteq Accounts(req[t].data)
      BY <1>3 DEF Handled, EndHandler
    <2>2. \A v \in Accounts(d) \cap MfaUser : <<BrowserOf[t], v>> \in admitted'
      BY <2>1 DEF FactorInv, FactorInCopies
    <2>3. QED
      BY <2>1, <2>2, FactorSave
  <1>4. CASE \/ \E u \in User : SwitchAccount(t, u) \/ RemoveAccount(t, u)
             \/ AddAccount(t) \/ Visit(t) \/ EndRevoke(t)
    BY <1>3, <1>4, HandlerEffect
  <1>5. QED
    BY <1>1, <1>2, <1>4 DEF Handle

LEMMA NextFactor ==
    BaseInv /\ CopyInv /\ FactorInv /\ [Next]_vars => FactorInv'
  <1> SUFFICES ASSUME BaseInv, CopyInv, FactorInv, [Next]_vars PROVE FactorInv'
    OBVIOUS
  <1>0. TypeOK
    BY DEF BaseInv
  <1>1. ASSUME NEW t \in Tab, Abandon(t) PROVE FactorInv'
    <2>1. RestOf({t}, {}) /\ req'[t] = Idle
      BY <1>0, <1>1, AbandonEffect
    <2>2. UNCHANGED <<store, cookie, admitted>>
      BY <1>1 DEF Abandon, history
    <2>3. QED
      BY <1>0, <2>1, <2>2, FactorSame
  <1>2. ASSUME NEW t \in Tab, Receive(t) PROVE FactorInv'
    BY <1>0, <1>2, ReceiveFactor
  <1>3. ASSUME NEW b \in Browser, ClearCookie(b) PROVE FactorInv'
    <2>1. cookie' = [cookie EXCEPT ![b] = 0] /\ UNCHANGED <<store, req, admitted>>
      BY <1>3 DEF ClearCookie, history
    <2>2. \A c \in Browser : cookie'[c] = 0 \/ cookie'[c] = cookie[c]
      BY <1>0, <2>1 DEF TypeOK
    <2>3. QED
      BY <1>0, <2>1, <2>2, FactorQuiet
  <1>4. ASSUME NEW u \in User, StartRevoke(u) PROVE FactorInv'
    BY <1>0, <1>4, FactorQuiet DEF StartRevoke
  <1>5. CASE RevokeAll
    <2>1. adm.todo \in SUBSET Sid /\ Destroy(adm.todo) /\ RestOf({}, adm.todo)
      BY <1>0, <1>5, RevokeAllEffect
    <2>2. \A x \in Tab : req'[x].sid = req[x].sid /\ req'[x].data = req[x].data
      BY <2>1 DEF RestOf, SameRequest
    <2>3. \A r \in Sid : store'[r].stored => store'[r] = store[r]
      BY <1>0, <2>1, DestroyEffect
    <2>4. UNCHANGED <<cookie, admitted>>
      BY <1>5 DEF RevokeAll
    <2>5. QED
      BY <1>0, <2>2, <2>3, <2>4, FactorQuiet
  <1>6. CASE UNCHANGED vars
    BY <1>0, <1>6, FactorQuiet DEF vars, history
  <1>7. QED
    BY <1>1, <1>2, <1>3, <1>4, <1>5, <1>6, SignInFactor, HandleFactor DEF Next

\* However sign-ins, added accounts and switches mix in a browser, an account with
\* a second factor is in its session only after the factor, or a recovery, was
\* passed in that browser (processLogin, verifyMfa).
THEOREM FactorBeforeSession == Spec => []SecondFactorKept
  <1>1. Init => FactorInv
    BY EmptyData DEF Init, FactorInv, Separate, FactorInCopies, SecondFactorKept, Idle
  <1>2. FactorInv => SecondFactorKept
    BY DEF FactorInv
  <1>3. QED
    BY <1>1, <1>2, NextFactor, CopiesAlways, PTL DEF Spec

-----------------------------------------------------------------------------
(* The limit on the sessions of a user.                                    *)

Bound == MaxSessions - 1 + Cardinality(Tab)

\* The ranks leave room for the sign-ins of u.
RanksFor(u, rank) ==
    /\ rank \in [Tab -> 1..Cardinality(Tab)]
    /\ \A t, x \in Tab : rank[t] = rank[x] => t = x
    /\ \A t \in Limiting(u) : Cardinality(Kept(u, t)) + rank[t] <= Bound

Room(u) == (\E rank : RanksFor(u, rank)) /\ Cardinality(Counted(u)) <= Bound

LimitInv == ActsAs /\ RoomByRank /\ LimitKept

LEMMA LimitInvIs == LimitInv <=> ActsAs /\ \A u \in User : Room(u)
  BY DEF LimitInv, RoomByRank, LimitKept, Room, RanksFor, Bound

LEMMA LeastNumber ==
    ASSUME NEW S \in SUBSET Nat, S # {}
    PROVE  \E m \in S : \A k \in S : m <= k
  <1>1. IsWellFoundedOn(OpToRel(<, Nat), Nat)
    BY NatLessThanWellFounded
  <1>2. \E x \in S : \A y \in S : ~(<<y, x>> \in OpToRel(<, Nat))
    BY <1>1, WFMin
  <1>3. \A x, y \in Nat : <<y, x>> \in OpToRel(<, Nat) <=> y < x
    BY DEF OpToRel
  <1>4. S \subseteq Nat
    OBVIOUS
  <1>5. \E x \in S : \A y \in S : ~(y < x)
    BY <1>2, <1>3, <1>4, Zenon
  <1>6. QED
    BY <1>5

\* Of some stored sessions one is older than the others.
LEMMA OldestOf ==
    ASSUME TypeOK, NEW K \in SUBSET Sid, K # {}
    PROVE  \E o \in K : \A r \in K \ {o} : Older(o, r)
  <1> DEFINE age(s) == store[s].data.time
             ages == {age(s) : s \in K}
  <1>1. \A s \in K : age(s) \in Nat
    <2>1. \A s \in K : store[s].data \in SessionData
      BY DEF TypeOK
    <2>2. \A s \in K : store[s].data.time \in 0..MaxTime
      BY <2>1, SessionDataIs DEF DataRecord
    <2>3. QED
      BY <2>2, SessionAssumption
  <1> HIDE DEF age
  <1>2. ages \in SUBSET Nat /\ ages # {}
    BY <1>1
  <1>3. PICK m \in ages : \A k \in ages : m <= k
    BY <1>2, LeastNumber
  <1> DEFINE first == {s \in K : age(s) = m}
  <1>4. first \in SUBSET Nat /\ first # {}
    BY <1>3, SessionAssumption DEF Sid
  <1>5. PICK o \in first : \A s \in first : o <= s
    BY <1>4, LeastNumber
  <1>6. ASSUME NEW r \in K \ {o} PROVE Older(o, r)
    <2>1. age(o) = m /\ m <= age(r) /\ m \in Nat /\ age(r) \in Nat
      BY <1>1, <1>2, <1>3, <1>5
    <2>2. age(r) = m => o <= r
      BY <1>5
    <2>3. o \in Nat /\ r \in Nat /\ o # r
      BY SessionAssumption DEF Sid
    <2>4. age(o) < age(r) \/ (age(o) = age(r) /\ o < r)
      BY <2>1, <2>2, <2>3
    <2>5. QED
      BY <2>4 DEF Older, age
  <1>7. QED
    BY <1>5, <1>6

LEMMA SidFinite ==
    ASSUME NEW S \in SUBSET Sid
    PROVE  IsFiniteSet(S) /\ Cardinality(S) \in Nat
  <1>1. IsFiniteSet(Sid)
    BY FS_Interval, SessionAssumption DEF Sid
  <1>2. QED
    BY <1>1, FS_Subset, FS_CardinalityType

LEMMA SmallerSet ==
    ASSUME NEW S \in SUBSET Sid, NEW T \in SUBSET S
    PROVE  /\ Cardinality(T) <= Cardinality(S)
           /\ Cardinality(S) \in Nat /\ Cardinality(T) \in Nat
  BY SidFinite, FS_Subset

LEMMA OneMore ==
    ASSUME NEW S \in SUBSET Sid, NEW s \in Sid, NEW T \in SUBSET (S \cup {s})
    PROVE  /\ Cardinality(T) <= Cardinality(S) + 1
           /\ Cardinality(S) \in Nat /\ Cardinality(T) \in Nat
  <1> DEFINE n == Cardinality(S)
             m == Cardinality(S \cup {s})
  <1>1. n \in Nat /\ IsFiniteSet(S)
    BY SidFinite
  <1>2. m = IF s \in S THEN n ELSE n + 1
    BY <1>1, FS_AddElement
  <1>3. S \cup {s} \in SUBSET Sid
    OBVIOUS
  <1>4. Cardinality(T) <= m /\ m \in Nat /\ Cardinality(T) \in Nat
    BY <1>3, SmallerSet
  <1> HIDE DEF n, m
  <1>5. Cardinality(T) <= n + 1
    BY <1>1, <1>2, <1>4
  <1>6. QED
    BY <1>1, <1>4, <1>5 DEF n

\* enforceSessionLimit leaves at most MaxSessions - 1 sessions beside its own.
LEMMA ExcessLeaves ==
    ASSUME TypeOK, NEW u, NEW sid
    PROVE  Cardinality(SessionsOf(u) \ (Excess(u, sid) \cup {sid})) <= MaxSessions - 1
  <1> DEFINE other == SessionsOf(u) \ {sid}
             K == SessionsOf(u) \ (Excess(u, sid) \cup {sid})
             newer(s) == {r \in other : Older(s, r)}
  <1>1. other \in SUBSET Sid /\ K \in SUBSET other /\ K \in SUBSET Sid
    BY DEF SessionsOf
  <1>2. \A s \in K : ~(Cardinality(newer(s)) >= MaxSessions - 1)
    BY DEF Excess
  <1> HIDE DEF K
  <1>3. CASE K = {}
    <2>1. Cardinality(K) = 0
      BY <1>3, FS_EmptySet
    <2>2. QED
      BY <2>1, SessionAssumption DEF K
  <1>4. CASE K # {}
    <2>1. PICK o \in K : \A r \in K \ {o} : Older(o, r)
      BY <1>1, <1>4, OldestOf
    <2>2. K \ {o} \in SUBSET newer(o) /\ newer(o) \in SUBSET Sid
      BY <1>1, <2>1
    <2>3. /\ Cardinality(K \ {o}) <= Cardinality(newer(o))
          /\ Cardinality(K \ {o}) \in Nat /\ Cardinality(newer(o)) \in Nat
      BY <2>2, SmallerSet
    <2>4. Cardinality(K \ {o}) = Cardinality(K) - 1 /\ Cardinality(K) \in Nat
      BY <1>1, <2>1, SidFinite, FS_RemoveElement
    <2>5. ~(Cardinality(newer(o)) >= MaxSessions - 1)
      BY <1>2, <2>1
    <2> HIDE DEF newer, other
    <2>6. Cardinality(K) <= MaxSessions - 1
      BY <2>3, <2>4, <2>5, SessionAssumption
    <2>7. QED
      BY <2>6 DEF K
  <1>5. QED
    BY <1>3, <1>4

LEMMA TabCount == Cardinality(Tab) \in Nat /\ Bound \in Nat
  BY SessionAssumption, FS_CardinalityType DEF Bound

LEMMA FirstRanks ==
    \E rank \in [Tab -> 1..Cardinality(Tab)] : \A t, x \in Tab : rank[t] = rank[x] => t = x
  <1> DEFINE N == Cardinality(Tab)
  <1>1. N \in Nat /\ IsFiniteSet(Tab)
    BY TabCount, SessionAssumption
  <1>2. IsFiniteSet(1..N) /\ Cardinality(1..N) = N
    BY <1>1, FS_Interval
  <1>3. ExistsBijection(Tab, 1..N)
    BY <1>1, <1>2, FS_SameCardinalityBij
  <1>4. PICK f \in [Tab -> 1..N] : f \in Bijection(Tab, 1..N)
    BY <1>3 DEF ExistsBijection, Bijection, Injection
  <1>5. \A t, x \in Tab : f[t] = f[x] => t = x
    BY <1>4 DEF Bijection, Injection, IsInjective
  <1>6. QED
    BY <1>5

LEMMA CountedSids ==
    ASSUME NEW u
    PROVE  Counted(u) \in SUBSET Sid /\ \A t \in Tab : Kept(u, t) \in SUBSET Counted(u)
  BY DEF Counted, SessionsOf, Kept

LEMMA CountedSidsNext ==
    ASSUME NEW u
    PROVE  Counted(u)' \in SUBSET Sid /\ \A t \in Tab : Kept(u, t)' \in SUBSET Counted(u)'
  BY DEF Counted, SessionsOf, Kept

\* The same ranks do when no session is added and no sign-in keeps more.
LEMMA RoomStays ==
    ASSUME NEW u \in User, Room(u), Counted(u)' \subseteq Counted(u),
           \A t \in Limiting(u)' : t \in Limiting(u) /\ Kept(u, t)' \subseteq Kept(u, t)
    PROVE  Room(u)'
  <1>1. PICK rank : RanksFor(u, rank)
    BY DEF Room
  <1>2. Bound \in Nat
    BY TabCount
  <1>3. Cardinality(Counted(u)') <= Bound
    <2>1. /\ Cardinality(Counted(u)') <= Cardinality(Counted(u))
          /\ Cardinality(Counted(u)) \in Nat /\ Cardinality(Counted(u)') \in Nat
      BY CountedSids, SmallerSet
    <2>2. QED
      BY <1>2, <2>1 DEF Room
  <1>4. ASSUME NEW t \in Limiting(u)'
        PROVE  Cardinality(Kept(u, t)') + rank[t] <= Bound
    <2>1. t \in Tab /\ t \in Limiting(u)
      BY DEF Limiting
    <2>2. Kept(u, t) \in SUBSET Sid /\ Kept(u, t)' \in SUBSET Kept(u, t)
      BY <2>1, CountedSids
    <2>3. /\ Cardinality(Kept(u, t)') <= Cardinality(Kept(u, t))
          /\ Cardinality(Kept(u, t)) \in Nat /\ Cardinality(Kept(u, t)') \in Nat
      BY <2>2, SmallerSet
    <2>4. Cardinality(Kept(u, t)) + rank[t] <= Bound /\ rank[t] \in Nat
      BY <1>1, <2>1, TabCount DEF RanksFor
    <2>5. QED
      BY <1>2, <2>3, <2>4
  <1>5. RanksFor(u, rank)'
    BY <1>1, <1>4 DEF RanksFor, Bound
  <1>6. QED
    BY <1>3, <1>5 DEF Room, Bound

\* The requests of the other tabs keep no more when no session is added.
LEMMA RoomRest ==
    ASSUME NEW u \in User, Room(u), Counted(u)' \subseteq Counted(u), NEW T, NEW S, RestOf(T, S),
           \A t \in T : t \in Limiting(u)' => t \in Limiting(u) /\ Kept(u, t)' \subseteq Kept(u, t)
    PROVE  Room(u)'
  <1>1. ASSUME NEW x \in Tab \ T, x \in Limiting(u)'
        PROVE  x \in Limiting(u) /\ Kept(u, x)' \subseteq Kept(u, x)
    BY <1>1 DEF RestOf, SameRequest, Limiting, Kept
  <1>2. \A x \in Limiting(u)' : x \in Tab
    BY DEF Limiting
  <1>3. QED
    BY <1>1, <1>2, RoomStays

LEMMA QuietCounted ==
    ASSUME NEW u, UNCHANGED <<store, late, free>>
    PROVE  Counted(u)' = Counted(u)
  BY DEF Counted, SessionsOf

LEMMA DestroyCounted ==
    ASSUME TypeOK, NEW u, NEW S \in SUBSET Sid, Destroy(S), late' = late
    PROVE  Counted(u)' \subseteq Counted(u) \ S
  <1>1. \A s \in Sid : store'[s].stored => s \notin S /\ store'[s] = store[s]
    BY DestroyEffect
  <1>2. free' = {p \in free : p[1] \notin S}
    BY DEF Destroy
  <1>3. QED
    BY <1>1, <1>2 DEF Counted, SessionsOf

LEMMA SaveCounted ==
    ASSUME TypeOK, NEW t \in Tab, NEW u, NEW d \in SessionData, SaveSession(t, d), free \subseteq free'
    PROVE  LET s == SavedSid(t)
           IN  /\ s \in Sid /\ Counted(u)' \subseteq Counted(u) \cup {s}
               /\ \/ d.acct # u \/ <<s, u>> \in free' \/ ~req[t].fresh
                  \/ store[s].stored /\ store[s].data.acct = u
                  => Counted(u)' \subseteq Counted(u)
  <1> DEFINE s == SavedSid(t)
  <1>1. /\ s \in Sid /\ store'[s].data = d
        /\ \A r \in Sid \ {s} : store'[r] = store[r]
        /\ late' = IF req[t].fresh THEN late ELSE late \cup {s}
    BY SaveSessionEffect
  <1> HIDE DEF s
  <1>2. late \subseteq late' /\ (~req[t].fresh => s \in late')
    BY <1>1
  <1>3. \A r \in Counted(u)' \ {s} : r \in Counted(u)
    BY <1>1, <1>2 DEF Counted, SessionsOf
  <1>4. s \in Counted(u)' => d.acct = u /\ <<s, u>> \notin free' /\ s \notin late'
    BY <1>1 DEF Counted, SessionsOf
  <1>5. s \in Counted(u)' /\ store[s].stored /\ store[s].data.acct = u => s \in Counted(u)
    BY <1>1, <1>2, <1>4 DEF Counted, SessionsOf
  <1>6. QED
    BY <1>1, <1>2, <1>3, <1>4, <1>5 DEF s

\* The sign-in of t ends with one session more: t goes to the end of the ranks.
LEMMA RanksMove ==
    ASSUME TypeOK, NEW u \in User, Room(u), NEW t \in Limiting(u), NEW s \in Sid, NEW S,
           RestOf({t}, S), req'[t] = Idle,
           Counted(u)' \subseteq Kept(u, t) \cup {s}, Counted(u)' \subseteq Counted(u) \cup {s}
    PROVE  Room(u)'
  <1> DEFINE N == Cardinality(Tab)
  <1>0. N \in Nat /\ Bound \in Nat /\ t \in Tab
    BY TabCount DEF Limiting
  <1>1. PICK rank : RanksFor(u, rank)
    BY DEF Room
  <1>2. /\ \A x \in Tab : rank[x] \in 1..N
        /\ \A x, y \in Tab : rank[x] = rank[y] => x = y
        /\ \A x \in Limiting(u) : Cardinality(Kept(u, x)) + rank[x] <= Bound
    BY <1>1 DEF RanksFor
  <1> DEFINE next == [x \in Tab |-> IF x = t THEN N ELSE IF rank[x] > rank[t] THEN rank[x] - 1 ELSE rank[x]]
  <1> HIDE DEF N
  <1>3. \A x \in Tab : next[x] = IF x = t THEN N ELSE IF rank[x] > rank[t] THEN rank[x] - 1 ELSE rank[x]
    OBVIOUS
  <1>4. next \in [Tab -> 1..N]
    <2>1. \A x \in Tab : next[x] \in 1..N
      BY <1>0, <1>2, <1>3
    <2>2. QED
      BY <2>1
  <1> HIDE DEF next
  <1>5. \A x, y \in Tab : next[x] = next[y] => x = y
    <2>1. SUFFICES ASSUME NEW x \in Tab, NEW y \in Tab, next[x] = next[y] PROVE x = y
      OBVIOUS
    <2>2. /\ rank[x] \in 1..N /\ rank[y] \in 1..N /\ rank[t] \in 1..N
          /\ (x # t => rank[x] # rank[t]) /\ (y # t => rank[y] # rank[t])
          /\ (rank[x] = rank[y] => x = y)
      BY <1>0, <1>2
    <2>3. QED
      BY <1>0, <1>3, <2>1, <2>2
  <1> DEFINE k == Cardinality(Kept(u, t))
             c == Cardinality(Counted(u)')
  <1>6. c <= k + 1 /\ c \in Nat /\ k \in Nat
    <2>1. Kept(u, t) \in SUBSET Sid
      BY <1>0, CountedSids
    <2>2. Counted(u)' \in SUBSET (Kept(u, t) \cup {s})
      OBVIOUS
    <2>3. QED
      BY <2>1, <2>2, OneMore
  <1>7. k + rank[t] <= Bound /\ rank[t] \in 1..N
    BY <1>0, <1>2
  <1>8. c <= Bound
    BY <1>0, <1>6, <1>7
  <1>9. ASSUME NEW x \in Limiting(u)'
        PROVE  Cardinality(Kept(u, x)') + next[x] <= Bound
    <2>1. x \in Tab /\ x # t
      BY DEF Limiting, Idle
    <2>2. x \in Limiting(u) /\ req'[x].todo = req[x].todo /\ req'[x].sid = req[x].sid
      BY <2>1 DEF RestOf, SameRequest, Limiting
    <2>3. Kept(u, x)' \subseteq Kept(u, x) \cup {s}
      BY <2>2 DEF Kept
    <2>4. Cardinality(Kept(u, x)') <= c /\ Cardinality(Kept(u, x)') \in Nat
      BY <2>1, CountedSidsNext, SmallerSet
    <2>5. Cardinality(Kept(u, x)') <= Cardinality(Kept(u, x)) + 1 /\ Cardinality(Kept(u, x)) \in Nat
      <3>1. Kept(u, x) \in SUBSET Sid
        BY <2>1, CountedSids
      <3>2. Kept(u, x)' \in SUBSET (Kept(u, x) \cup {s})
        BY <2>3
      <3>3. QED
        BY <3>1, <3>2, OneMore
    <2>6. Cardinality(Kept(u, x)) + rank[x] <= Bound /\ rank[x] \in 1..N /\ rank[x] # rank[t]
      BY <1>0, <1>2, <2>1, <2>2
    <2>7. CASE rank[x] > rank[t]
      <3>1. next[x] = rank[x] - 1
        BY <1>3, <2>1, <2>7
      <3>2. QED
        BY <1>0, <2>4, <2>5, <2>6, <3>1
    <2>8. CASE rank[x] < rank[t]
      <3>1. next[x] = rank[x]
        BY <1>0, <1>2, <1>3, <2>1, <2>8
      <3>2. QED
        BY <1>0, <1>6, <1>7, <2>4, <2>6, <2>8, <3>1
    <2>9. QED
      BY <1>0, <1>7, <2>6, <2>7, <2>8
  <1>10. RanksFor(u, next)'
    BY <1>4, <1>5, <1>9 DEF RanksFor, Bound, N
  <1>11. QED
    BY <1>8, <1>10 DEF Room, Bound

LEMMA IdleNotLimiting ==
    ASSUME NEW t \in Tab, NEW u, req'[t] = Idle
    PROVE  t \notin Limiting(u)'
  BY DEF Limiting, Idle

\* The end of a request that adds no session of u.
LEMMA SavedRoom ==
    ASSUME TypeOK, NEW t \in Tab, NEW d \in SessionData, SaveSession(t, d),
           NEW u \in User, Room(u), Counted(u)' \subseteq Counted(u)
    PROVE  Room(u)'
  <1>1. RestOf({t}, {SavedSid(t)}) /\ req'[t] = Idle
    BY SaveSessionEffect
  <1>2. t \notin Limiting(u)'
    BY <1>1, IdleNotLimiting
  <1>3. QED
    BY <1>1, <1>2, RoomRest

\* ... and of one that asked for the excess and adds one.
LEMMA LimitedRoom ==
    ASSUME TypeOK, NEW t \in Tab, InStep(t), NEW d \in SessionData, SaveSession(t, d),
           NEW u \in User, Room(u), t \in Limiting(u), req[t].at = "save", free \subseteq free'
    PROVE  Room(u)'
  <1> DEFINE s == SavedSid(t)
  <1>1. s \in Sid /\ Counted(u)' \subseteq Counted(u) \cup {s}
    BY SaveCounted
  <1>2. RestOf({t}, {s}) /\ req'[t] = Idle
    BY SaveSessionEffect
  <1>3. req[t].todo = {}
    BY DEF InStep
  <1>4. req[t].sid = s \/ req[t].sid = 0
    BY DEF SavedSid
  <1> HIDE DEF s
  <1>5. 0 \notin Sid
    BY SessionAssumption DEF Sid
  <1>6. Counted(u) \subseteq Kept(u, t) \cup {s}
    BY <1>3, <1>4, <1>5 DEF Kept, Counted, SessionsOf
  <1>7. Counted(u)' \subseteq Kept(u, t) \cup {s}
    BY <1>1, <1>6
  <1>8. QED
    BY <1>1, <1>2, <1>7, RanksMove

LEMMA HandledRoom ==
    ASSUME BaseInv, CopyInv, NEW u \in User, Room(u), NEW t \in Tab, NEW d, NEW R, Handled(t, d, R)
    PROVE  Room(u)'
  <1>1. TypeOK
    BY DEF BaseInv
  <1>2. /\ SaveSession(t, d) /\ d \in SessionData /\ req[t].sid # 0 /\ ~Regenerated(t)
        /\ free' = IF d.acct = req[t].data.acct THEN free ELSE free \cup {<<req[t].sid, d.acct>>}
    BY DEF Handled, EndHandler
  <1>3. SavedSid(t) \in Sid /\ SavedSid(t) = req[t].sid
    BY <1>1, <1>2, SaveSessionEffect
  <1>4. req[t].fresh => store[SavedSid(t)].stored /\ store[SavedSid(t)].data = req[t].data
    BY <1>2, <1>3, FreshWrite
  <1>5. Counted(u)' \subseteq Counted(u)
    BY <1>1, <1>2, <1>3, <1>4, SaveCounted
  <1>6. QED
    BY <1>1, <1>2, <1>5, SavedRoom

LEMMA FinishesRoom ==
    ASSUME BaseInv, CopyInv, NEW u \in User, Room(u), NEW t \in Tab, NEW w, NEW d, Finishes(t, w, d),
           req[t].at = "save" \/ Ways[w].limit = "never",
           Ways[w].limit # "never" =>
               \/ req[t].op = w /\ req[t].user = d.acct
               \/ d = req[t].data /\ d.active # NoUser /\ ~Regenerated(t)
    PROVE  Room(u)'
  <1> DEFINE s == SavedSid(t)
             c == req[t].data
  <1>1. TypeOK /\ InStep(t)
    BY DEF BaseInv, InStepAll
  <1>2. /\ SaveSession(t, d) /\ d \in SessionData /\ w \in WayName
        /\ w \in Pending => d.acct = c.acct /\ ~Regenerated(t)
        /\ free' = IF w \in Pending \/ (req[t].limited /\ Ways[w].limit # "never")
                     THEN free ELSE free \cup {<<s, d.acct>>}
    BY DEF Finishes, SignedIn
  <1>3. s \in Sid /\ free \subseteq free'
    BY <1>1, <1>2, SaveSessionEffect
  <1>4. req[t].fresh /\ ~Regenerated(t) /\ req[t].sid # 0 => store[s].stored /\ store[s].data = c
    BY <1>3, FreshWrite
  <1>5. req[t].sid = 0 => c.acct = NoUser /\ c.active = NoUser
    BY <1>1, EmptyData DEF InStep, Empty
  <1>6. u # NoUser
    BY SessionAssumption
  <1>7. CASE d.acct # u \/ <<s, u>> \in free'
    <2>1. Counted(u)' \subseteq Counted(u)
      BY <1>1, <1>2, <1>3, <1>7, SaveCounted
    <2>2. QED
      BY <1>1, <1>2, <2>1, SavedRoom
  <1>8. CASE d.acct = u /\ d.acct = c.acct /\ ~Regenerated(t)
    <2>1. Counted(u)' \subseteq Counted(u)
      BY <1>1, <1>2, <1>3, <1>4, <1>5, <1>6, <1>8, SaveCounted
    <2>2. QED
      BY <1>1, <1>2, <2>1, SavedRoom
  <1>9. CASE d.acct = u /\ w \notin Pending /\ req[t].limited /\ Ways[w].limit # "never"
               /\ req[t].op = w /\ req[t].user = d.acct
    <2>1. t \in Limiting(u)
      BY <1>2, <1>9 DEF Limiting
    <2>2. QED
      BY <1>1, <1>2, <1>3, <1>9, <2>1, LimitedRoom
  <1>10. QED
    BY <1>2, <1>7, <1>8, <1>9

\* The request of t goes on, or ends, and adds no session; it is not one that
\* asked for the excess, or it was and its list did not grow.
LEMMA StepRoom ==
    ASSUME NEW u \in User, Room(u), NEW t \in Tab, NEW S, RestOf({t}, S),
           Counted(u)' \subseteq Counted(u), t \notin Limiting(u)'
    PROVE  Room(u)'
  BY RoomRest

LEMMA RegenerateRoom ==
    ASSUME TypeOK, NEW v \in User, Room(v), NEW t \in Tab, NEW w \in WayName, NEW u \in User,
           Regenerate(t, w, u) \/ RegenerateFails(t, w, u)
    PROVE  Room(v)'
  <1>1. /\ req'[t].op = w /\ req'[t].at = IF Ways[w].limit = "after" THEN "limit" ELSE "save"
        /\ Counted(v)' \subseteq Counted(v)
        /\ \E S : RestOf({t}, S)
    <2>1. CASE Regenerate(t, w, u)
      <3> DEFINE S == {req[t].sid} \ {0}
      <3>1. /\ req'[t].op = w /\ req'[t].at = IF Ways[w].limit = "after" THEN "limit" ELSE "save"
            /\ RestOf({t}, S) /\ S \in SUBSET Sid /\ Destroy(S)
        BY <2>1, RegenerateEffect
      <3>2. late' = late
        BY <2>1 DEF Regenerate
      <3> HIDE DEF S
      <3>3. Counted(v)' \subseteq Counted(v) \ S
        BY <3>1, <3>2, DestroyCounted
      <3>4. QED
        BY <3>1, <3>3
    <2>2. CASE RegenerateFails(t, w, u)
      <3>1. /\ req'[t].op = w /\ req'[t].at = IF Ways[w].limit = "after" THEN "limit" ELSE "save"
            /\ RestOf({t}, {})
        BY <2>2, RegenerateFailsEffect
      <3>2. UNCHANGED <<store, late, free>>
        BY <2>2 DEF RegenerateFails
      <3>3. QED
        BY <3>1, <3>2, QuietCounted
    <2>3. QED
      BY <2>1, <2>2
  <1>2. Ways[w].regen
    BY DEF Regenerate, RegenerateFails
  <1>3. Ways[w].limit = "after" \/ Ways[w].limit = "never"
    BY <1>2, WaysTable
  <1>4. t \notin Limiting(v)'
    BY <1>1, <1>3 DEF Limiting
  <1>5. QED
    BY <1>1, <1>4, StepRoom

LEMMA FindExcessRoom ==
    ASSUME TypeOK, NEW v \in User, Room(v), NEW t \in Tab, NEW w \in WayName, NEW u \in User,
           FindExcess(t, w, u)
    PROVE  Room(v)'
  <1>1. /\ RestOf({t}, {}) /\ req'[t].user = u /\ req'[t].todo = Excess(u, req[t].sid)
        /\ req'[t].sid = req[t].sid
    BY FindExcessEffect
  <1>2. UNCHANGED <<store, late, free>>
    BY DEF FindExcess, history
  <1>3. Counted(v)' = Counted(v)
    BY <1>2, QuietCounted
  <1>4. CASE u # v
    <2>1. t \notin Limiting(v)'
      BY <1>1, <1>4 DEF Limiting
    <2>2. QED
      BY <1>1, <1>3, <2>1, StepRoom
  <1>5. CASE u = v
    <2> DEFINE left == SessionsOf(v) \ (Excess(v, req[t].sid) \cup {req[t].sid})
    <2>1. PICK rank : RanksFor(v, rank)
      BY DEF Room
    <2>2. Kept(v, t)' \subseteq left
      BY <1>1, <1>3, <1>5 DEF Kept, Counted
    <2>3. left \in SUBSET Sid
      BY DEF SessionsOf
    <2>4. Cardinality(left) <= MaxSessions - 1
      BY ExcessLeaves
    <2> HIDE DEF left
    <2>5. /\ Cardinality(Kept(v, t)') <= Cardinality(left)
          /\ Cardinality(Kept(v, t)') \in Nat /\ Cardinality(left) \in Nat
      BY <2>2, <2>3, SmallerSet
    <2>6. Cardinality(Kept(v, t)') <= MaxSessions - 1 /\ Cardinality(Kept(v, t)') \in Nat
      BY <2>4, <2>5, SessionAssumption
    <2>7. rank[t] <= Cardinality(Tab) /\ rank[t] \in Nat /\ Cardinality(Tab) \in Nat
      BY <2>1, TabCount DEF RanksFor
    <2>8. Cardinality(Kept(v, t)') + rank[t] <= Bound
      BY <2>6, <2>7, SessionAssumption DEF Bound
    <2>9. ASSUME NEW x \in Limiting(v)', x # t
          PROVE  Cardinality(Kept(v, x)') + rank[x] <= Bound
      <3>1. x \in Tab /\ x \in Limiting(v)
        BY <1>1, <2>9 DEF Limiting, RestOf, SameRequest
      <3>2. Kept(v, x)' = Kept(v, x)
        BY <1>1, <1>3, <2>9, <3>1 DEF Kept, RestOf, SameRequest
      <3>3. QED
        BY <2>1, <3>1, <3>2 DEF RanksFor
    <2>10. RanksFor(v, rank)'
      BY <2>1, <2>8, <2>9 DEF RanksFor, Bound
    <2>11. QED
      BY <1>3, <2>10 DEF Room, Bound
  <1>6. QED
    BY <1>4, <1>5

LEMMA DeleteSessionRoom ==
    ASSUME TypeOK, NEW v \in User, Room(v), NEW t \in Tab, DeleteSession(t)
    PROVE  Room(v)'
  <1>1. PICK s \in req[t].todo :
          /\ s \in Sid /\ Destroy({s}) /\ RestOf({t}, {s})
          /\ req'[t].op = req[t].op /\ req'[t].user = req[t].user
          /\ req'[t].todo = req[t].todo \ {s} /\ req'[t].sid = req[t].sid
          /\ req'[t].limited = req[t].limited
    BY DeleteSessionEffect
  <1>2. {s} \in SUBSET Sid /\ late' = late /\ req[t].at = "delete"
    BY <1>1 DEF DeleteSession
  <1>3. Counted(v)' \subseteq Counted(v) \ {s}
    BY <1>1, <1>2, DestroyCounted
  <1>4. t \in Limiting(v)' => t \in Limiting(v)
    BY <1>1, <1>2 DEF Limiting
  <1>5. Kept(v, t)' \subseteq Kept(v, t)
    BY <1>1, <1>3 DEF Kept
  <1>6. QED
    BY <1>1, <1>3, <1>4, <1>5, RoomRest

LEMMA SignInRoom ==
    ASSUME BaseInv, CopyInv, ActsAs, NEW v \in User, Room(v), NEW t \in Tab, SignIn(t)
    PROVE  Room(v)'
  <1>0. TypeOK
    BY DEF BaseInv
  <1>1. ASSUME NEW w \in WayName, NEW u \in User, SignInHere(t, w, u) PROVE Room(v)'
    <2> DEFINE d == PutAccount(w, req[t].data, u)
    <2>1. /\ Finishes(t, w, d) /\ ~Regenerated(t)
          /\ w = "continue" => d.acct = u \/ (req[t].data.active # NoUser /\ d = req[t].data)
          /\ w \in {"pending", "newDevice", "continue", "another", "recovered"}
          /\ w = "continue" => req[t].at = "save" /\ req[t].op = w /\ req[t].user = u
      BY <1>1, SignInHereEffect
    <2> HIDE DEF d
    <2>2. Ways[w].limit = "never" \/ w = "continue"
      BY <2>1, WaysTable
    <2>3. QED
      BY <2>1, <2>2, FinishesRoom
  <1>2. CASE FinishSignIn(t)
    <2>1. Finishes(t, req[t].op, req[t].data) /\ Regenerated(t) /\ req[t].at = "save"
      BY <1>2, FinishSignInEffect
    <2>2. Ways[req[t].op].limit # "never" => req[t].user = req[t].data.acct
      <3>1. req[t].op \in WayName /\ Ways[req[t].op].regen
        BY <2>1 DEF Regenerated
      <3>2. Ways[req[t].op].limit # "never" => Ways[req[t].op].limit = "after"
        BY <3>1, WaysTable
      <3>3. QED
        BY <3>1, <3>2 DEF ActsAs
    <2>3. QED
      BY <2>1, <2>2, FinishesRoom
  <1>3. CASE LimitFails(t)
    <2>1. RestOf({t}, {}) /\ req'[t].limited = FALSE
      BY <1>0, <1>3, LimitFailsEffect
    <2>2. UNCHANGED <<store, late, free>>
      BY <1>3 DEF LimitFails, history
    <2>3. t \notin Limiting(v)'
      BY <2>1 DEF Limiting
    <2>4. QED
      BY <2>1, <2>2, <2>3, QuietCounted, StepRoom
  <1>4. QED
    BY <1>0, <1>1, <1>2, <1>3, RegenerateRoom, FindExcessRoom, DeleteSessionRoom DEF SignIn

LEMMA HandleRoom ==
    ASSUME BaseInv, CopyInv, NEW v \in User, Room(v), NEW t \in Tab, Handle(t)
    PROVE  Room(v)'
  <1>0. TypeOK
    BY DEF BaseInv
  <1>1. CASE Logout(t)
    <2>1. /\ {req[t].sid} \in SUBSET Sid /\ Destroy({req[t].sid})
          /\ RestOf({t}, {req[t].sid}) /\ req'[t] = Idle
      BY <1>0, <1>1, LogoutEffect
    <2>2. late' = late
      BY <1>1 DEF Logout
    <2>3. Counted(v)' \subseteq Counted(v)
      BY <1>0, <2>1, <2>2, DestroyCounted
    <2>4. QED
      BY <2>1, <2>3, IdleNotLimiting, StepRoom
  <1>2. CASE FindOthers(t)
    <2>1. RestOf({t}, {}) /\ req'[t].op = "revoke"
      BY <1>0, <1>2, FindOthersEffect
    <2>2. UNCHANGED <<store, late, free>>
      BY <1>2 DEF FindOthers, history
    <2>3. t \notin Limiting(v)'
      BY <2>1 DEF Limiting, WayName
    <2>4. QED
      BY <2>1, <2>2, <2>3, QuietCounted, StepRoom
  <1>3. CASE \/ \E u \in User : SwitchAccount(t, u) \/ RemoveAccount(t, u)
             \/ AddAccount(t) \/ Visit(t) \/ EndRevoke(t)
    BY <1>3, HandlerEffect, HandledRoom
  <1>4. QED
    BY <1>1, <1>2, <1>3 DEF Handle

\* A step in which every request stays what it is.
LEMMA QuietRoom ==
    ASSUME NEW v \in User, Room(v), UNCHANGED <<store, req, late, free>>
    PROVE  Room(v)'
  <1>1. Counted(v)' = Counted(v)
    BY QuietCounted
  <1>2. RestOf({}, {})
    BY DEF RestOf, SameRequest
  <1>3. QED
    BY <1>1, <1>2, RoomRest

LEMMA NextRoom ==
    ASSUME BaseInv, CopyInv, ActsAs, [Next]_vars, NEW v \in User, Room(v)
    PROVE  Room(v)'
  <1>0. TypeOK
    BY DEF BaseInv
  <1>1. ASSUME NEW t \in Tab, Receive(t) \/ Abandon(t) PROVE Room(v)'
    <2>1. RestOf({t}, {}) /\ req'[t].at \in {"open", "idle"}
      BY <1>0, <1>1, ReceiveEffect, AbandonEffect DEF Idle
    <2>2. UNCHANGED <<store, late, free>>
      BY <1>1 DEF Receive, Abandon, history
    <2>3. t \notin Limiting(v)'
      BY <2>1 DEF Limiting
    <2>4. QED
      BY <2>1, <2>2, <2>3, QuietCounted, StepRoom
  <1>2. ASSUME NEW b \in Browser, ClearCookie(b) PROVE Room(v)'
    BY <1>2, QuietRoom DEF ClearCookie, history
  <1>3. ASSUME NEW u \in User, StartRevoke(u) PROVE Room(v)'
    BY <1>3, QuietRoom DEF StartRevoke
  <1>4. CASE RevokeAll
    <2>1. adm.todo \in SUBSET Sid /\ Destroy(adm.todo) /\ RestOf({}, adm.todo)
      BY <1>0, <1>4, RevokeAllEffect
    <2>2. late' = late
      BY <1>4 DEF RevokeAll
    <2>3. Counted(v)' \subseteq Counted(v)
      BY <1>0, <2>1, <2>2, DestroyCounted
    <2>4. QED
      BY <2>1, <2>3, RoomRest
  <1>5. CASE UNCHANGED vars
    BY <1>5, QuietRoom DEF vars, history
  <1>6. QED
    BY <1>1, <1>2, <1>3, <1>4, <1>5, SignInRoom, HandleRoom DEF Next

\* The request of t keeps what it does and for whom, or is no such sign-in.
LEMMA ActsRest ==
    ASSUME ActsAs, NEW t \in Tab, NEW S, RestOf({t}, S),
           req'[t].op \in WayName /\ Ways[req'[t].op].limit = "after" =>
               req'[t].data.acct = req'[t].user
    PROVE  ActsAs'
  <1>1. \A x \in Tab \ {t} : /\ req'[x].op = req[x].op /\ req'[x].data = req[x].data
                             /\ req'[x].user = req[x].user
    BY DEF RestOf, SameRequest
  <1>2. QED
    BY <1>1 DEF ActsAs

LEMMA NextActs ==
    ASSUME BaseInv, CopyInv, ActsAs, [Next]_vars
    PROVE  ActsAs'
  <1>0. TypeOK
    BY DEF BaseInv
  <1>a. "none" \notin WayName /\ "revoke" \notin WayName /\ Idle.op = "none"
    BY DEF WayName, Idle
  <1>1. ASSUME NEW t \in Tab, NEW d \in SessionData, SaveSession(t, d) PROVE ActsAs'
    <2>1. RestOf({t}, {SavedSid(t)}) /\ req'[t] = Idle
      BY <1>0, <1>1, SaveSessionEffect
    <2>2. QED
      BY <1>a, <2>1, ActsRest
  <1>2. ASSUME NEW t \in Tab, SignIn(t) PROVE ActsAs'
    <2>1. ASSUME NEW w \in WayName, NEW u \in User, Regenerate(t, w, u) PROVE ActsAs'
      <3> DEFINE d == PutAccount(w, req[t].data, u)
      <3>1. RestOf({t}, {req[t].sid} \ {0}) /\ req'[t].op = w /\ req'[t].user = u
        BY <1>0, <2>1, RegenerateEffect
      <3>2. req'[t].data = d
        BY <1>0, <2>1, RegenerateEffect
      <3>3. Ways[w].limit = "after" => d.acct = u
        <4>1. Ways[w].regen /\ Stamp(w) /\ now \in Nat /\ req[t].data \in SessionData
          BY <1>0, <2>1, RequestFields, SessionAssumption DEF Regenerate, TypeOK
        <4>2. w # "pending" /\ (w \in Pending \/ Ways[w].put = "add" \/ now < MaxTime)
          BY <4>1, WaysTable DEF Stamp
        <4>3. QED
          BY <4>1, <4>2, PutAccountData
      <3> HIDE DEF d
      <3>4. QED
        BY <3>1, <3>2, <3>3, ActsRest
    <2>2. ASSUME NEW w \in WayName, NEW u \in User, RegenerateFails(t, w, u) PROVE ActsAs'
      <3> DEFINE d == PutAccount(w, Empty, u)
      <3>1. /\ RestOf({t}, {}) /\ req'[t].op = w /\ req'[t].user = u
            /\ req'[t].data = d /\ (Ways[w].limit = "after" => d.acct = u)
        BY <1>0, <2>2, RegenerateFailsEffect
      <3> HIDE DEF d
      <3>2. QED
        BY <3>1, ActsRest
    <2>3. ASSUME NEW w \in WayName, NEW u \in User, FindExcess(t, w, u) PROVE ActsAs'
      <3>1. RestOf({t}, {}) /\ req'[t].op = w /\ req'[t].user = u /\ req'[t].data = req[t].data
        BY <1>0, <2>3, FindExcessEffect
      <3>2. (req[t].op = w /\ req[t].user = u) \/ Ways[w].limit = "before"
        BY <2>3 DEF FindExcess
      <3>3. QED
        BY <3>1, <3>2, ActsRest DEF ActsAs
    <2>4. ASSUME NEW w \in WayName, NEW u \in User, SignInHere(t, w, u) PROVE ActsAs'
      BY <1>1, <2>4, SignInHereEffect DEF Finishes
    <2>5. CASE LimitFails(t)
      <3>1. /\ RestOf({t}, {}) /\ req'[t].op = req[t].op /\ req'[t].user = req[t].user
            /\ req'[t].data = req[t].data
        BY <1>0, <2>5, LimitFailsEffect
      <3>2. QED
        BY <3>1, ActsRest DEF ActsAs
    <2>6. CASE DeleteSession(t)
      <3>1. /\ \E s : RestOf({t}, {s})
            /\ req'[t].op = req[t].op /\ req'[t].user = req[t].user /\ req'[t].data = req[t].data
        BY <1>0, <2>6, DeleteSessionEffect
      <3>2. QED
        BY <3>1, ActsRest DEF ActsAs
    <2>7. CASE FinishSignIn(t)
      BY <1>1, <2>7, FinishSignInEffect DEF Finishes
    <2>8. QED
      BY <1>2, <2>1, <2>2, <2>3, <2>4, <2>5, <2>6, <2>7 DEF SignIn
  <1>3. ASSUME NEW t \in Tab, Handle(t) PROVE ActsAs'
    <2>1. CASE Logout(t)
      BY <1>0, <1>a, <2>1, LogoutEffect, ActsRest
    <2>2. CASE FindOthers(t)
      BY <1>0, <1>a, <2>2, FindOthersEffect, ActsRest
    <2>3. CASE \/ \E u \in User : SwitchAccount(t, u) \/ RemoveAccount(t, u)
               \/ AddAccount(t) \/ Visit(t) \/ EndRevoke(t)
      BY <1>1, <2>3, HandlerEffect DEF Handled, EndHandler
    <2>4. QED
      BY <1>3, <2>1, <2>2, <2>3 DEF Handle
  <1>4. ASSUME NEW t \in Tab, Receive(t) \/ Abandon(t) PROVE ActsAs'
    <2>1. RestOf({t}, {}) /\ req'[t].op = "none"
      BY <1>0, <1>4, <1>a, ReceiveEffect, AbandonEffect
    <2>2. QED
      BY <1>a, <2>1, ActsRest
  <1>5. CASE RevokeAll
    <2>1. RestOf({}, adm.todo)
      BY <1>0, <1>5, RevokeAllEffect
    <2>2. QED
      BY <2>1 DEF RestOf, SameRequest, ActsAs
  <1>6. ASSUME req' = req PROVE ActsAs'
    BY <1>6 DEF ActsAs
  <1>7. ASSUME NEW b \in Browser, ClearCookie(b) PROVE ActsAs'
    BY <1>6, <1>7 DEF ClearCookie
  <1>8. ASSUME NEW u \in User, StartRevoke(u) PROVE ActsAs'
    BY <1>6, <1>8 DEF StartRevoke
  <1>9. CASE UNCHANGED vars
    BY <1>6, <1>9 DEF vars
  <1>10. QED
    BY <1>2, <1>3, <1>4, <1>5, <1>7, <1>8, <1>9 DEF Next

LEMMA InitRoom == Init => LimitInv
  <1> SUFFICES ASSUME Init PROVE ActsAs /\ \A u \in User : Room(u)
    BY LimitInvIs
  <1>1. \A t \in Tab : req[t] = Idle
    BY DEF Init
  <1>2. ActsAs
    BY <1>1 DEF ActsAs, Idle, WayName
  <1>3. ASSUME NEW u \in User PROVE Room(u)
    <2>1. Limiting(u) = {}
      BY <1>1 DEF Limiting, Idle
    <2>2. Counted(u) = {}
      BY DEF Init, Counted, SessionsOf, None
    <2>3. \E rank : RanksFor(u, rank)
      BY <2>1, FirstRanks DEF RanksFor
    <2>4. Cardinality(Counted(u)) <= Bound
      BY <2>2, FS_EmptySet, TabCount
    <2>5. QED
      BY <2>3, <2>4 DEF Room
  <1>4. QED
    BY <1>2, <1>3

LEMMA NextLimit ==
    BaseInv /\ CopyInv /\ LimitInv /\ [Next]_vars => LimitInv'
  <1> SUFFICES ASSUME BaseInv, CopyInv, LimitInv, [Next]_vars PROVE LimitInv'
    OBVIOUS
  <1>1. ActsAs /\ \A u \in User : Room(u)
    BY LimitInvIs
  <1>2. ActsAs'
    BY <1>1, NextActs
  <1>3. \A u \in User : Room(u)'
    BY <1>1, NextRoom
  <1>4. RoomByRank'
    BY <1>3 DEF RoomByRank, Room, RanksFor, Bound
  <1>5. LimitKept'
    BY <1>3 DEF LimitKept, Room, Bound
  <1>6. QED
    BY <1>2, <1>4, <1>5 DEF LimitInv

\* However many sign-ins of a user run at the same time, the sessions that are
\* subject to the limit exceed it by at most one for each of the tabs but one, and
\* never add up over time (enforceSessionLimit).
THEOREM SessionsLimited == Spec => []LimitKept
  <1>1. LimitInv => LimitKept
    BY DEF LimitInv
  <1>2. QED
    BY <1>1, InitRoom, NextLimit, CopiesAlways, PTL DEF Spec
=============================================================================
