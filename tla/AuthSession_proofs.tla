------------------------- MODULE AuthSession_proofs -------------------------
(***************************************************************************)
(* Proofs about AuthSession, for any accounts, any number of pairs issued  *)
(* and any number of calls in flight.                                      *)
(***************************************************************************)
EXTENDS AuthSession, SequenceTheorems, TLAPS

Steps == {"asked", "granted", "challenged", "denied", "me"}
Tokens == Pairs \union {0}
CallType == [op : Ops, token : Tokens, step : Steps, pair : Tokens, form : BOOLEAN]

\* TypeOK, with the calls as a sequence of records.
SessionTyped ==
    /\ claims \in Seq(ClaimSets) /\ Len(claims) <= MaxPairs
    /\ valid \subseteq Pairs
    /\ ref \in Tokens /\ storage \in Tokens /\ access \in Tokens
    /\ user.sub \in Tokens /\ user.role \in Range(ROLES)
    /\ ready \in BOOLEAN /\ over \in BOOLEAN
    /\ modal \in {"closed", "credentials", "twoFactor"}
CallsTyped ==
    /\ calls \in Seq(CallType) /\ Len(calls) <= MaxCalls
    /\ \A i \in DOMAIN calls : calls[i].form => modal # "closed"

\* The refresh token is what was stored, and is replaced with the access token.
TokensAgree == access = ref /\ ref \in {0, storage}

\* What a call carries: the token a logout gives back and the one a served
\* refresh has used are no longer the session's.
CallsInv ==
    \A i \in DOMAIN calls :
        /\ calls[i].op \in {"login", "verify"} => calls[i].token = 0
        /\ calls[i].op = "logout" => calls[i].step = "asked"
        /\ calls[i].step = "challenged" => calls[i].op = "login"
        /\ calls[i].op = "logout" \/ calls[i].step = "me" =>
              storage = 0 \/ calls[i].token # storage

\* A pair that was granted and not applied yet is known to nobody else.
GrantedInv ==
    \A i \in DOMAIN calls : calls[i].step = "granted" =>
        /\ calls[i].pair \in valid /\ calls[i].pair \notin {ref, storage}
        /\ \A j \in DOMAIN calls :
              /\ calls[j].token # calls[i].pair
              /\ calls[j].step = "granted" /\ j # i => calls[j].pair # calls[i].pair

\* After a logout nothing is left of the session, and no call can bring it back.
OverInv ==
    over => /\ ref = 0 /\ storage = 0 /\ user = Anonymous
            /\ \A i \in DOMAIN calls : calls[i].op = "logout"

\* The token that is stored is valid, or is on its way to be replaced.
UsableInv ==
    storage # 0 => storage \in valid \/ \E i \in DOMAIN calls : calls[i].token = storage

IInv ==
    /\ SessionTyped
    /\ CallsTyped
    /\ TokensAgree
    /\ CallsInv
    /\ GrantedInv
    /\ UsableInv
    /\ OverInv

-----------------------------------------------------------------------------
\* The pairs are numbered, and the next one is nobody's yet.
LEMMA PairsAre ==
    ASSUME claims \in Seq(ClaimSets)
    PROVE  /\ Len(claims) \in Nat /\ Pairs \subseteq Nat /\ 0 \notin Pairs
           /\ 0 \in Tokens /\ Tokens \subseteq Nat
           /\ \A p \in Pairs : claims[p] \in ClaimSets
           /\ Len(claims) + 1 \notin Tokens
BY LenProperties, ElementOfSeq DEF Pairs, Tokens

\* Who a token stands for, whatever is issued later.
LEMMA AuthenticateType ==
    ASSUME claims \in Seq(ClaimSets), NEW p \in Tokens
    PROVE  /\ Authenticate(p).sub \in {0, p} /\ Authenticate(p).role \in Range(ROLES)
           /\ Authenticate(0) = Anonymous
<1>1. "viewer" \in Range(ROLES) /\ "operator" \in Range(ROLES) /\ "admin" \in Range(ROLES)
  <2>1. /\ DOMAIN ROLES = 1..3
        /\ ROLES[1] = "viewer" /\ ROLES[2] = "operator" /\ ROLES[3] = "admin"
    BY DEF ROLES
  <2>2. QED
    BY <2>1 DEF Range
<1>2. \A S : RoleFromClaims(S) \in Range(ROLES)
  BY <1>1 DEF RoleFromClaims
<1>3. QED
  BY <1>1, <1>2 DEF Authenticate, Anonymous

\* The calls in flight are records, one for each index.
LEMMA CallsAre ==
    ASSUME CallsTyped
    PROVE  /\ Len(calls) \in Nat /\ DOMAIN calls = 1..Len(calls)
           /\ \A i \in DOMAIN calls : calls[i] \in CallType
BY LenProperties, ElementOfSeq DEF CallsTyped

-----------------------------------------------------------------------------
\* Calls that say the same; a form can only leave the screen.
SameCall(a, b) ==
    /\ a.op = b.op /\ a.token = b.token /\ a.step = b.step /\ a.pair = b.pair
    /\ a.form => b.form

\* cs is what is left of the calls without the k-th one
Skip(i, k) == IF i < k THEN i ELSE i + 1
Without(cs, k) ==
    /\ Len(cs) = Len(calls) - 1
    /\ \A i \in DOMAIN cs : SameCall(cs[i], calls[Skip(i, k)])

LEMMA RemoveAtProperties ==
    ASSUME NEW S, NEW s \in Seq(S), NEW i \in DOMAIN s
    PROVE  /\ RemoveAt(s, i) \in Seq(S)
           /\ Len(RemoveAt(s, i)) = Len(s) - 1
           /\ \A k \in 1..(Len(s) - 1) : RemoveAt(s, i)[k] = s[Skip(k, i)]
<1> DEFINE a == SubSeq(s, 1, i - 1)
           b == SubSeq(s, i + 1, Len(s))
<1>1. /\ Len(s) \in Nat /\ i \in 1..Len(s) /\ DOMAIN s = 1..Len(s)
      /\ \A k \in 1..Len(s) : s[k] \in S
  BY LenProperties, ElementOfSeq
<1>2. /\ a \in Seq(S) /\ Len(a) = i - 1
      /\ \A k \in 1..(i - 1) : a[k] = s[k]
  <2>1. \A k \in 1..(i - 1) : s[k] \in S
    BY <1>1
  <2>2. /\ a \in Seq(S) /\ Len(a) = IF 1 <= i - 1 THEN i - 1 - 1 + 1 ELSE 0
        /\ \A k \in 1..(i - 1 - 1 + 1) : a[k] = s[1 + k - 1]
    BY <1>1, <2>1, SubSeqProperties
  <2>3. QED
    BY <1>1, <2>2
<1>3. /\ b \in Seq(S) /\ Len(b) = Len(s) - i
      /\ \A k \in 1..(Len(s) - i) : b[k] = s[i + k]
  <2>1. \A k \in (i + 1)..Len(s) : s[k] \in S
    BY <1>1
  <2>2. /\ b \in Seq(S)
        /\ Len(b) = IF i + 1 <= Len(s) THEN Len(s) - (i + 1) + 1 ELSE 0
        /\ \A k \in 1..(Len(s) - (i + 1) + 1) : b[k] = s[(i + 1) + k - 1]
    BY <1>1, <2>1, SubSeqProperties
  <2>3. Len(b) = Len(s) - i
    BY <1>1, <2>2
  <2>4. ASSUME NEW k \in 1..(Len(s) - i)
        PROVE  b[k] = s[i + k]
    <3>1. k \in 1..(Len(s) - (i + 1) + 1) /\ (i + 1) + k - 1 = i + k
      BY <1>1
    <3>2. QED
      BY <2>2, <3>1
  <2>5. QED
    BY <2>2, <2>3, <2>4
<1>4. RemoveAt(s, i) = a \o b
  BY DEF RemoveAt
<1> HIDE DEF a, b
<1>5. /\ a \o b \in Seq(S) /\ Len(a \o b) = Len(a) + Len(b)
      /\ \A k \in 1..(Len(a) + Len(b)) :
            (a \o b)[k] = IF k <= Len(a) THEN a[k] ELSE b[k - Len(a)]
  BY <1>2, <1>3, ConcatProperties
<1>6. QED
  BY <1>1, <1>2, <1>3, <1>4, <1>5 DEF Skip

\* Detached takes every form off the screen and nothing else.
LEMMA DetachedProperties ==
    ASSUME NEW cs \in Seq(CallType)
    PROVE  /\ Detached(cs) \in Seq(CallType) /\ Len(Detached(cs)) = Len(cs)
           /\ DOMAIN Detached(cs) = DOMAIN cs
           /\ \A i \in DOMAIN cs : /\ SameCall(Detached(cs)[i], cs[i])
                                   /\ ~Detached(cs)[i].form
<1>1. Len(cs) \in Nat /\ DOMAIN cs = 1..Len(cs) /\ \A i \in DOMAIN cs : cs[i] \in CallType
  BY LenProperties, ElementOfSeq
<1>2. ASSUME NEW i \in DOMAIN cs
      PROVE  /\ [cs[i] EXCEPT !.form = FALSE] \in CallType
             /\ SameCall([cs[i] EXCEPT !.form = FALSE], cs[i])
             /\ ~[cs[i] EXCEPT !.form = FALSE].form
  BY <1>1 DEF CallType, SameCall
<1>3. /\ DOMAIN Detached(cs) = 1..Len(cs)
      /\ \A i \in 1..Len(cs) : Detached(cs)[i] = [cs[i] EXCEPT !.form = FALSE]
  BY <1>1 DEF Detached
<1>4. Detached(cs) \in [1..Len(cs) -> CallType]
  BY <1>1, <1>2, <1>3 DEF Detached
<1>5. Detached(cs) \in Seq(CallType)
  BY <1>1, <1>4, SeqDef
<1>6. Len(Detached(cs)) = Len(cs)
  BY <1>1, <1>3, <1>5, LenProperties
<1>7. QED
  BY <1>1, <1>2, <1>3, <1>5, <1>6

\* What SetUser makes of the calls cs it is given
LEMMA SetUserCalls ==
    ASSUME NEW cs \in Seq(CallType), NEW u, NEW form, SetUser(u, cs, form)
    PROVE  /\ calls' \in Seq(CallType) /\ Len(calls') = Len(cs)
           /\ DOMAIN calls' = DOMAIN cs
           /\ \A i \in DOMAIN cs :
                 /\ SameCall(calls'[i], cs[i])
                 /\ calls'[i].form => u.sub = 0 /\ form # "closed"
<1>1. CASE u.sub # 0 \/ form = "closed"
  <2>1. calls' = Detached(cs)
    BY <1>1 DEF SetUser
  <2>2. QED
    BY <2>1, DetachedProperties
<1>2. CASE ~(u.sub # 0 \/ form = "closed")
  <2>1. calls' = cs
    BY <1>2 DEF SetUser
  <2>2. QED
    BY <1>2, <2>1 DEF SameCall
<1>3. QED
  BY <1>1, <1>2

-----------------------------------------------------------------------------
LEMMA InitIInv == Init => IInv
<1> SUFFICES ASSUME Init PROVE IInv
  OBVIOUS
<1>1. claims \in Seq(ClaimSets) /\ Len(claims) = 0 /\ calls \in Seq(CallType) /\ Len(calls) = 0
      /\ DOMAIN calls = {}
  BY DEF Init
<1>2. SessionTyped
  <2>1. ref \in Tokens /\ storage \in Tokens /\ access \in Tokens
    BY DEF Init, Tokens
  <2>2. user.sub \in Tokens /\ user.role \in Range(ROLES)
    BY <1>1, PairsAre, AuthenticateType DEF Init
  <2>3. ready \in BOOLEAN /\ over \in BOOLEAN
    BY Zenon DEF Init
  <2>4. QED
    BY <1>1, <2>1, <2>2, <2>3, AuthAssumption DEF Init, SessionTyped
<1>3. CallsTyped
  BY <1>1, AuthAssumption DEF CallsTyped
<1>4. TokensAgree /\ CallsInv /\ GrantedInv /\ UsableInv /\ OverInv
  BY <1>1 DEF Init, TokensAgree, CallsInv, GrantedInv, UsableInv, OverInv
<1>5. QED
  BY <1>2, <1>3, <1>4 DEF IInv

-----------------------------------------------------------------------------
\* A step that answers call k, or only takes forms off the screen, leaves calls
\* that were there: m says which.
LEMMA FewerCalls ==
    ASSUME CallsTyped, CallsInv, GrantedInv, NEW m,
           \A i \in DOMAIN calls' : m[i] \in DOMAIN calls /\ SameCall(calls'[i], calls[m[i]]),
           \A i, j \in DOMAIN calls' : i # j => m[i] # m[j],
           ref' \in {0, ref}, storage' \in {0, storage}, 0 \notin valid,
           \A i \in DOMAIN calls : calls[i].step = "granted" => calls[i].pair \in valid'
    PROVE  CallsInv' /\ GrantedInv'
<1>1. CallsInv'
  BY DEF CallsInv, SameCall
<1>2. GrantedInv'
  <2> SUFFICES ASSUME NEW i \in DOMAIN calls', calls'[i].step = "granted"
               PROVE  /\ calls'[i].pair \in valid' /\ calls'[i].pair \notin {ref', storage'}
                      /\ \A j \in DOMAIN calls' :
                            /\ calls'[j].token # calls'[i].pair
                            /\ calls'[j].step = "granted" /\ j # i
                                  => calls'[j].pair # calls'[i].pair
    BY DEF GrantedInv
  <2>1. /\ m[i] \in DOMAIN calls /\ calls[m[i]].step = "granted"
        /\ calls[m[i]].pair = calls'[i].pair
    BY DEF SameCall
  <2>2. calls'[i].pair \in valid' /\ calls'[i].pair \notin {ref', storage'}
    BY <2>1 DEF GrantedInv
  <2>3. ASSUME NEW j \in DOMAIN calls'
        PROVE  /\ calls'[j].token # calls'[i].pair
               /\ calls'[j].step = "granted" /\ j # i => calls'[j].pair # calls'[i].pair
    <3>1. /\ m[j] \in DOMAIN calls /\ calls[m[j]].token = calls'[j].token
          /\ calls[m[j]].step = calls'[j].step /\ calls[m[j]].pair = calls'[j].pair
          /\ j # i => m[j] # m[i]
      BY DEF SameCall
    <3>2. QED
      BY <2>1, <3>1 DEF GrantedInv
  <2>4. QED
    BY <2>2, <2>3
<1>3. QED
  BY <1>1, <1>2

\* The calls that remain without the k-th one are the others, one for one.
LEMMA RemainingCalls ==
    ASSUME CallsTyped, NEW k \in DOMAIN calls, NEW cs, Without(cs, k), cs \in Seq(CallType)
    PROVE  /\ Len(cs) <= MaxCalls
           /\ \A i \in DOMAIN cs : Skip(i, k) \in DOMAIN calls /\ Skip(i, k) # k
           /\ \A i, j \in DOMAIN cs : i # j => Skip(i, k) # Skip(j, k)
           /\ \A i \in DOMAIN calls \ {k} : \E j \in DOMAIN cs : Skip(j, k) = i
<1>1. /\ Len(calls) \in Nat /\ DOMAIN calls = 1..Len(calls)
      /\ Len(cs) = Len(calls) - 1 /\ DOMAIN cs = 1..(Len(calls) - 1)
      /\ Len(calls) <= MaxCalls
  BY CallsAre, LenProperties DEF Without, CallsTyped
<1>2. \A i \in DOMAIN cs : Skip(i, k) \in DOMAIN calls /\ Skip(i, k) # k
  BY <1>1 DEF Skip
<1>3. \A i, j \in DOMAIN cs : i # j => Skip(i, k) # Skip(j, k)
  BY <1>1 DEF Skip
<1>4. ASSUME NEW i \in DOMAIN calls \ {k}
      PROVE  \E j \in DOMAIN cs : Skip(j, k) = i
  <2>1. CASE i < k
    <3>1. i \in DOMAIN cs /\ Skip(i, k) = i
      BY <1>1, <2>1 DEF Skip
    <3>2. QED
      BY <3>1
  <2>2. CASE i > k
    <3>1. i - 1 \in DOMAIN cs /\ Skip(i - 1, k) = i
      BY <1>1, <2>2 DEF Skip
    <3>2. QED
      BY <3>1
  <2>3. QED
    BY <1>1, <2>1, <2>2
<1>5. Len(cs) <= MaxCalls
  BY <1>1, AuthAssumption
<1>6. QED
  BY <1>2, <1>3, <1>4, <1>5

\* Call k is answered for good, and the session goes on with the same tokens or
\* with none.
LEMMA AnsweredKeeps ==
    ASSUME SessionTyped, CallsTyped, CallsInv, GrantedInv, UsableInv,
           NEW k \in DOMAIN calls, Without(calls', k), calls' \in Seq(CallType),
           ref' \in {0, ref}, storage' \in {0, storage},
           storage' = 0 \/ calls[k].token # storage,
           valid \ {calls[k].token} \subseteq valid',
           calls[k].step = "granted" => calls[k].pair \in valid'
    PROVE  /\ CallsInv' /\ GrantedInv' /\ UsableInv'
           /\ Len(calls') <= MaxCalls
           /\ \A i \in DOMAIN calls' : Skip(i, k) \in DOMAIN calls /\ Skip(i, k) # k
           /\ \A i \in DOMAIN calls \ {k} : \E j \in DOMAIN calls' : Skip(j, k) = i
<1>1. Len(calls') <= MaxCalls
  BY RemainingCalls
<1>2. \A i \in DOMAIN calls' : Skip(i, k) \in DOMAIN calls /\ Skip(i, k) # k
  BY RemainingCalls
<1>3. \A i, j \in DOMAIN calls' : i # j => Skip(i, k) # Skip(j, k)
  BY RemainingCalls
<1>4. \A i \in DOMAIN calls \ {k} : \E j \in DOMAIN calls' : Skip(j, k) = i
  BY RemainingCalls
<1>5. CallsInv' /\ GrantedInv'
  <2> DEFINE m == [i \in DOMAIN calls' |-> Skip(i, k)]
  <2>1. /\ \A i \in DOMAIN calls' : m[i] \in DOMAIN calls /\ SameCall(calls'[i], calls[m[i]])
        /\ \A i, j \in DOMAIN calls' : i # j => m[i] # m[j]
    BY <1>2, <1>3 DEF Without
  <2>2. \A i \in DOMAIN calls : calls[i].step = "granted" => calls[i].pair \in valid'
    BY DEF GrantedInv
  <2>3. 0 \notin valid
    BY PairsAre DEF SessionTyped
  <2> HIDE DEF m
  <2>4. QED
    BY <2>1, <2>2, <2>3, FewerCalls
<1>6. UsableInv'
  <2> SUFFICES ASSUME storage' # 0
               PROVE  storage \in valid' \/ \E j \in DOMAIN calls' : calls'[j].token = storage
    BY DEF UsableInv
  <2>1. storage # 0 /\ calls[k].token # storage
    OBVIOUS
  <2>2. CASE storage \in valid
    BY <2>1, <2>2
  <2>3. ASSUME NEW i \in DOMAIN calls, calls[i].token = storage
        PROVE  \E j \in DOMAIN calls' : calls'[j].token = storage
    <3>1. PICK j \in DOMAIN calls' : Skip(j, k) = i
      BY <1>4, <2>1, <2>3
    <3>2. calls'[j].token = storage
      BY <2>3, <3>1 DEF Without, SameCall
    <3>3. QED
      BY <3>2
  <2>4. QED
    BY <2>1, <2>2, <2>3 DEF UsableInv
<1>7. QED
  BY <1>1, <1>2, <1>4, <1>5, <1>6

\* RemoveAt, and SetUser after it, answer a call for good.
LEMMA RemovedIsWithout ==
    ASSUME CallsTyped, NEW k \in DOMAIN calls, NEW cs, cs = RemoveAt(calls, k)
    PROVE  /\ cs \in Seq(CallType) /\ Without(cs, k)
           /\ DOMAIN cs = 1..(Len(calls) - 1)
<1>1. calls \in Seq(CallType)
  BY DEF CallsTyped
<1>2. /\ cs \in Seq(CallType) /\ Len(cs) = Len(calls) - 1
      /\ \A i \in 1..(Len(calls) - 1) : cs[i] = calls[Skip(i, k)]
  BY <1>1, RemoveAtProperties
<1>3. DOMAIN cs = 1..(Len(calls) - 1)
  BY <1>2, LenProperties
<1>4. QED
  BY <1>2, <1>3 DEF Without, SameCall

LEMMA SetUserWithout ==
    ASSUME CallsTyped, NEW k \in DOMAIN calls, NEW u, NEW form,
           SetUser(u, RemoveAt(calls, k), form),
           form = "closed" \/ form = modal
    PROVE  /\ calls' \in Seq(CallType) /\ Without(calls', k)
           /\ \A i \in DOMAIN calls' : calls'[i].form => modal' # "closed"
<1>1. PICK cs : cs = RemoveAt(calls, k)
  OBVIOUS
<1>2. /\ cs \in Seq(CallType) /\ Without(cs, k)
  BY <1>1, RemovedIsWithout
<1>3. SetUser(u, cs, form)
  BY <1>1
<1>4. /\ calls' \in Seq(CallType) /\ Len(calls') = Len(cs) /\ DOMAIN calls' = DOMAIN cs
      /\ \A i \in DOMAIN cs : /\ SameCall(calls'[i], cs[i])
                              /\ calls'[i].form => u.sub = 0 /\ form # "closed"
  BY <1>2, <1>3, SetUserCalls
<1>5. Without(calls', k)
  BY <1>2, <1>4 DEF Without, SameCall
<1>6. \A i \in DOMAIN calls' : calls'[i].form => modal' # "closed"
  BY <1>3, <1>4 DEF SetUser
<1>7. QED
  BY <1>4, <1>5, <1>6

\* While nothing is issued, the tokens stay the same.
LEMMA ClaimsSame ==
    ASSUME UNCHANGED claims
    PROVE  Pairs' = Pairs /\ Tokens' = Tokens /\ CallType' = CallType
BY DEF Pairs, Tokens, CallType

\* A call whose token the session does not use is answered and leaves the session
\* alone.
LEMMA AnsweredQuietly ==
    ASSUME IInv, NEW k \in DOMAIN calls, calls' = RemoveAt(calls, k),
           UNCHANGED <<claims, session, over>>,
           ready' \in BOOLEAN,
           modal' \in {modal, "twoFactor"},
           storage = 0 \/ calls[k].token # storage, calls[k].step # "granted",
           valid' \subseteq valid, valid \ {calls[k].token} \subseteq valid'
    PROVE  IInv'
<1> USE DEF IInv
<1>1. calls' \in Seq(CallType) /\ Without(calls', k) /\ DOMAIN calls' = 1..(Len(calls) - 1)
  BY RemovedIsWithout
<1>2. UNCHANGED <<ref, storage, access, user>>
  BY DEF session
<1>3. /\ CallsInv' /\ GrantedInv' /\ UsableInv' /\ Len(calls') <= MaxCalls
      /\ \A i \in DOMAIN calls' : Skip(i, k) \in DOMAIN calls /\ Skip(i, k) # k
      /\ \A i \in DOMAIN calls \ {k} : \E j \in DOMAIN calls' : Skip(j, k) = i
  BY <1>1, <1>2, AnsweredKeeps
<1>4. SessionTyped'
  BY <1>2, ClaimsSame DEF SessionTyped
<1>5. CallsTyped'
  <2>1. \A i \in DOMAIN calls' : calls'[i].form => modal' # "closed"
    BY <1>1, <1>3 DEF CallsTyped, Without, SameCall
  <2>2. QED
    BY <1>1, <1>3, <2>1, ClaimsSame DEF CallsTyped
<1>6. TokensAgree'
  BY <1>2 DEF TokensAgree
<1>7. OverInv'
  BY <1>1, <1>2, <1>3 DEF OverInv, Without, SameCall
<1>8. QED
  BY <1>3, <1>4, <1>5, <1>6, <1>7

LEMMA ServeLogoutIInv ==
    ASSUME IInv, NEW k \in DOMAIN calls, ServeLogout(k), calls[k].step = "asked",
           UNCHANGED <<session, ready, modal, over>>
    PROVE  IInv'
<1>1. /\ calls' = RemoveAt(calls, k) /\ UNCHANGED claims
      /\ valid' \subseteq valid /\ valid \ {calls[k].token} \subseteq valid'
      /\ calls[k].op = "logout"
  BY DEF ServeLogout
<1>2. storage = 0 \/ calls[k].token # storage
  BY <1>1 DEF IInv, CallsInv
<1>3. ready' \in BOOLEAN
  BY DEF IInv, SessionTyped
<1>4. QED
  BY <1>1, <1>2, <1>3, AnsweredQuietly

LEMMA ChallengedIInv ==
    ASSUME IInv, NEW k \in DOMAIN calls, Challenged(k) PROVE IInv'
<1>1. /\ calls' = RemoveAt(calls, k) /\ calls[k].step = "challenged"
      /\ modal' \in {modal, "twoFactor"}
      /\ UNCHANGED <<claims, valid, session, ready, over>>
  BY DEF Challenged, service
<1>2. storage = 0 \/ calls[k].token # storage
  BY <1>1 DEF IInv, CallsInv
<1>3. ready' \in BOOLEAN
  BY <1>1 DEF IInv, SessionTyped
<1>4. QED
  BY <1>1, <1>2, <1>3, AnsweredQuietly

\* fetchMe() answers: the user is the one of the pair, or a visitor.
LEMMA MeIInv == ASSUME IInv, NEW k \in DOMAIN calls, Me(k) PROVE IInv'
<1> USE DEF IInv
<1>1. /\ calls[k].step = "me" /\ Finally(k)
      /\ UNCHANGED <<claims, valid, ref, storage, access, over>>
  BY DEF Me, service
<1>2. PICK u \in {Authenticate(calls[k].pair), Anonymous} :
         SetUser(u, RemoveAt(calls, k), IF Refreshing(calls[k]) THEN modal ELSE "closed")
  BY DEF Me
<1>3. PICK form : form = IF Refreshing(calls[k]) THEN modal ELSE "closed"
  OBVIOUS
<1>4. SetUser(u, RemoveAt(calls, k), form) /\ (form = "closed" \/ form = modal)
  BY <1>2, <1>3
<1>5. /\ calls' \in Seq(CallType) /\ Without(calls', k)
      /\ \A i \in DOMAIN calls' : calls'[i].form => modal' # "closed"
  BY <1>4, SetUserWithout
<1>6. storage = 0 \/ calls[k].token # storage
  BY <1>1 DEF CallsInv
<1>7. CallsInv' /\ GrantedInv' /\ UsableInv' /\ Len(calls') <= MaxCalls
  BY <1>1, <1>5, <1>6, AnsweredKeeps
<1>8. SessionTyped'
  <2>1. u.sub \in Tokens /\ u.role \in Range(ROLES)
    <3>1. calls[k].pair \in Tokens /\ 0 \in Tokens /\ claims \in Seq(ClaimSets)
      BY CallsAre, PairsAre DEF SessionTyped, CallType
    <3>2. QED
      BY <1>2, <3>1, AuthenticateType
  <2>2. user' = u /\ modal' \in {form, "credentials"}
    BY <1>4 DEF SetUser
  <2>3. ready' \in BOOLEAN
    BY <1>1, Zenon DEF Finally, SessionTyped
  <2>4. modal' \in {"closed", "credentials", "twoFactor"}
    BY <1>4, <2>2 DEF SessionTyped
  <2>5. QED
    BY <1>1, <2>1, <2>2, <2>3, <2>4, ClaimsSame DEF SessionTyped
<1>9. CallsTyped'
  BY <1>1, <1>5, <1>7, ClaimsSame DEF CallsTyped
<1>10. TokensAgree'
  BY <1>1 DEF TokensAgree
<1>11. OverInv'
  BY <1>1 DEF OverInv, CallsInv
<1>12. QED
  BY <1>7, <1>8, <1>9, <1>10, <1>11

\* A call is refused: a refresh ends the session, a login leaves it as it is.
LEMMA FailsIInv == ASSUME IInv, NEW k \in DOMAIN calls, Fails(k) PROVE IInv'
<1> USE DEF IInv
<1>1. /\ calls[k].step \in {"denied", "me"} /\ Finally(k)
      /\ UNCHANGED <<claims, valid, over>>
  BY DEF Fails, service
<1>2. ready' \in BOOLEAN
  BY <1>1, Zenon DEF Finally, SessionTyped
<1>3. calls[k].op # "logout" /\ calls[k].op \in Ops
  BY <1>1, CallsAre DEF CallsInv, CallType
<1>4. CASE Refreshing(calls[k])
  <2>1. /\ ref' = 0 /\ storage' = 0 /\ access' = 0
        /\ SetUser(Anonymous, RemoveAt(calls, k), modal)
    BY <1>4 DEF Fails, ClearSession
  <2>2. /\ calls' \in Seq(CallType) /\ Without(calls', k)
        /\ \A i \in DOMAIN calls' : calls'[i].form => modal' # "closed"
    BY <2>1, SetUserWithout
  <2>3. CallsInv' /\ GrantedInv' /\ UsableInv' /\ Len(calls') <= MaxCalls
    BY <1>1, <2>1, <2>2, AnsweredKeeps
  <2>4. 0 \in Tokens /\ Anonymous.sub = 0 /\ Anonymous.role \in Range(ROLES)
    BY PairsAre, AuthenticateType DEF SessionTyped, Anonymous
  <2>5. user' = Anonymous /\ modal' \in {modal, "credentials"}
    BY <2>1 DEF SetUser
  <2>6. SessionTyped'
    <3>1. over' \in BOOLEAN
      BY <1>1, Zenon DEF SessionTyped
    <3>2. QED
      BY <1>1, <1>2, <2>1, <2>4, <2>5, <3>1, ClaimsSame DEF SessionTyped
  <2>7. CallsTyped'
    BY <1>1, <2>2, <2>3, ClaimsSame DEF CallsTyped
  <2>8. TokensAgree'
    BY <2>1 DEF TokensAgree
  <2>9. OverInv'
    BY <1>1, <1>3 DEF OverInv
  <2>10. QED
    BY <2>3, <2>6, <2>7, <2>8, <2>9
<1>5. CASE ~Refreshing(calls[k])
  <2>1. /\ calls' = RemoveAt(calls, k) /\ UNCHANGED <<session, modal>>
    BY <1>5 DEF Fails
  <2>2. storage = 0 \/ calls[k].token # storage
    BY <1>3, <1>5 DEF Refreshing, Ops, CallsInv
  <2>3. QED
    BY <1>1, <1>2, <2>1, <2>2, AnsweredQuietly
<1>6. QED
  BY <1>4, <1>5

-----------------------------------------------------------------------------
\* The auth service answers call k, which goes on as d: nothing of the session
\* changes, and a pair that is issued is known to nobody yet.
Served(k, d) ==
    /\ calls' = [calls EXCEPT ![k] = d]
    /\ d.op = calls[k].op /\ d.token = calls[k].token /\ d.form = calls[k].form
    /\ UNCHANGED <<session, ready, modal, over>>

LEMMA ServedKeeps ==
    ASSUME IInv, NEW k \in DOMAIN calls, NEW d, Served(k, d), calls[k].step = "asked",
           d \in CallType', d.step \in {"granted", "challenged", "denied"},
           claims' \in Seq(ClaimSets), Len(claims') <= MaxPairs, Len(claims) <= Len(claims'),
           \A p \in Pairs : claims'[p] = claims[p],
           valid' \subseteq Pairs', valid \ {calls[k].token} \subseteq valid',
           d.op # "logout", d.step = "challenged" => d.op = "login",
           d.step = "granted" => d.pair \in valid' /\ d.pair \notin Tokens
    PROVE  IInv'
<1> USE DEF IInv
<1>1. UNCHANGED <<ref, storage, access, user, ready, modal, over>>
  BY DEF Served, session
<1>2. /\ Len(calls) \in Nat /\ DOMAIN calls = 1..Len(calls)
      /\ \A i \in DOMAIN calls : calls[i] \in CallType
      /\ Len(calls) <= MaxCalls
  BY CallsAre DEF CallsTyped
<1>3. Pairs \subseteq Pairs' /\ Tokens \subseteq Tokens'
  BY PairsAre, LenProperties DEF Pairs, Tokens, SessionTyped
<1>4. /\ DOMAIN calls' = DOMAIN calls /\ calls'[k] = d
      /\ \A i \in DOMAIN calls \ {k} : calls'[i] = calls[i]
  BY DEF Served
<1>5. calls' \in Seq(CallType') /\ Len(calls') = Len(calls)
  <2>1. \A i \in DOMAIN calls : calls[i] \in CallType'
    BY <1>2, <1>3 DEF CallType
  <2>2. \A i \in DOMAIN calls : calls'[i] \in CallType'
    BY <1>4, <2>1
  <2>3. calls' \in [1..Len(calls) -> CallType']
    BY <1>2, <1>4, <2>2 DEF Served, CallsTyped
  <2>4. calls' \in Seq(CallType')
    BY <1>2, <2>3, SeqDef
  <2>5. QED
    BY <1>2, <2>3, <2>4, LenProperties
<1>6. SessionTyped'
  BY <1>1, <1>3 DEF SessionTyped
<1>7. CallsTyped'
  BY <1>1, <1>2, <1>4, <1>5 DEF CallsTyped, Served
<1>8. TokensAgree'
  BY <1>1 DEF TokensAgree
<1>9. CallsInv'
  BY <1>1, <1>4 DEF CallsInv, Served
<1>10. GrantedInv'
  <2>1. /\ ref \in Tokens /\ storage \in Tokens
        /\ \A i \in DOMAIN calls : calls[i].token \in Tokens /\ calls[i].pair \in Tokens
        /\ \A i \in DOMAIN calls : calls'[i].token = calls[i].token
    BY <1>2, <1>4 DEF SessionTyped, CallType, Served
  <2>2. ASSUME NEW i \in DOMAIN calls, calls'[i].step = "granted"
        PROVE  /\ calls'[i].pair \in valid' /\ calls'[i].pair \notin {ref, storage}
               /\ \A j \in DOMAIN calls :
                     /\ calls'[j].token # calls'[i].pair
                     /\ calls'[j].step = "granted" /\ j # i => calls'[j].pair # calls'[i].pair
    <3>1. CASE i = k
      BY <1>4, <2>1, <2>2, <3>1
    <3>2. CASE i # k
      <4>1. /\ calls[i].step = "granted" /\ calls'[i].pair = calls[i].pair
            /\ calls[i].pair \in valid /\ calls[i].pair # calls[k].token
            /\ calls[i].pair \notin {ref, storage}
            /\ \A j \in DOMAIN calls :
                  /\ calls[j].token # calls[i].pair
                  /\ calls[j].step = "granted" /\ j # i => calls[j].pair # calls[i].pair
        BY <1>4, <2>2, <3>2 DEF GrantedInv
      <4>2. QED
        BY <1>4, <2>1, <4>1
    <3>3. QED
      BY <3>1, <3>2
  <2>3. QED
    BY <1>1, <1>4, <2>2 DEF GrantedInv
<1>11. UsableInv'
  <2> SUFFICES ASSUME storage # 0
               PROVE  storage \in valid' \/ \E i \in DOMAIN calls : calls'[i].token = storage
    BY <1>1, <1>4 DEF UsableInv
  <2>1. \A i \in DOMAIN calls : calls'[i].token = calls[i].token
    BY <1>4 DEF Served
  <2>2. CASE storage \in valid
    BY <2>1, <2>2
  <2>3. CASE storage \notin valid
    BY <2>1, <2>3 DEF UsableInv
  <2>4. QED
    BY <2>2, <2>3
<1>12. OverInv'
  BY <1>1, <1>4 DEF OverInv, Served
<1>13. QED
  BY <1>6, <1>7, <1>8, <1>9, <1>10, <1>11, <1>12

\* The service issues a pair, whose number the answer carries if it arrives.
LEMMA IssuedIInv ==
    ASSUME IInv, NEW k \in DOMAIN calls, calls[k].step = "asked", calls[k].op # "logout",
           UNCHANGED <<session, ready, modal, over>>,
           NEW S \in ClaimSets, Issue(S), Grant(k) \/ Step(k, "denied"),
           valid' = (valid \ {calls[k].token}) \union {Len(claims')}
    PROVE  IInv'
<1> USE DEF IInv
<1>1. /\ calls[k] \in CallType /\ claims \in Seq(ClaimSets) /\ Len(claims) \in Nat
      /\ valid \subseteq Pairs /\ Len(claims) + 1 \notin Tokens
  BY CallsAre, PairsAre DEF SessionTyped
<1>2. /\ claims' = Append(claims, S) /\ Len(claims) < MaxPairs
      /\ claims' \in Seq(ClaimSets) /\ Len(claims') = Len(claims) + 1
      /\ \A p \in Pairs : claims'[p] = claims[p]
  BY <1>1, AppendProperties DEF Issue, Pairs
<1>3. PICK n : n = Len(claims')
  OBVIOUS
<1>4. /\ n = Len(claims) + 1 /\ n \notin Tokens /\ n \in Pairs' /\ n \in Tokens'
      /\ Pairs \subseteq Pairs' /\ Tokens \subseteq Tokens' /\ n <= MaxPairs
  BY <1>1, <1>2, <1>3, AuthAssumption DEF Pairs, Tokens
<1>5. /\ valid' \subseteq Pairs' /\ n \in valid' /\ valid \ {calls[k].token} \subseteq valid'
      /\ Len(claims') <= MaxPairs /\ Len(claims) <= Len(claims')
  <2>1. Len(claims') <= MaxPairs /\ Len(claims) <= Len(claims')
    BY <1>1, <1>2, AuthAssumption
  <2>2. valid' = (valid \ {calls[k].token}) \union {n}
    BY <1>3
  <2>3. QED
    BY <1>1, <1>4, <2>1, <2>2
<1>6. calls[k] \in CallType'
  BY <1>1, <1>4 DEF CallType
<1>7. CASE Grant(k)
  <2>1. PICK d : d = [calls[k] EXCEPT !.step = "granted", !.pair = n]
    OBVIOUS
  <2>2. /\ d \in CallType' /\ d.step = "granted" /\ d.pair = n /\ d.op = calls[k].op
        /\ d.token = calls[k].token /\ d.form = calls[k].form
    BY <1>4, <1>6, <2>1 DEF CallType, Steps
  <2>3. Served(k, d)
    BY <1>3, <1>7, <2>1, <2>2 DEF Grant, Served
  <2>4. QED
    BY <1>1, <1>2, <1>3, <1>4, <1>5, <2>2, <2>3, ServedKeeps
<1>8. CASE Step(k, "denied")
  <2>1. PICK d : d = [calls[k] EXCEPT !.step = "denied"]
    OBVIOUS
  <2>2. /\ d \in CallType' /\ d.step = "denied" /\ d.op = calls[k].op
        /\ d.token = calls[k].token /\ d.form = calls[k].form
    BY <1>6, <2>1 DEF CallType, Steps
  <2>3. Served(k, d)
    BY <1>8, <2>1, <2>2 DEF Step, Served
  <2>4. QED
    BY <1>1, <1>2, <1>3, <1>4, <1>5, <2>2, <2>3, ServedKeeps
<1>9. QED
  BY <1>7, <1>8

\* The service refuses, or asks for a second factor.
LEMMA NotIssuedIInv ==
    ASSUME IInv, NEW k \in DOMAIN calls, calls[k].step = "asked", calls[k].op # "logout",
           UNCHANGED <<session, ready, modal, over, claims, valid>>,
           NEW step \in {"challenged", "denied"}, Step(k, step),
           step = "challenged" => calls[k].op = "login"
    PROVE  IInv'
<1> USE DEF IInv
<1>1. /\ calls[k] \in CallType' /\ claims' \in Seq(ClaimSets) /\ Len(claims') <= MaxPairs
      /\ Len(claims) <= Len(claims') /\ valid' \subseteq Pairs' /\ UNCHANGED <<claims, valid>>
  BY CallsAre, PairsAre, ClaimsSame DEF SessionTyped
<1>2. PICK d : d = [calls[k] EXCEPT !.step = step]
  OBVIOUS
<1>3. /\ d \in CallType' /\ d.step = step /\ d.op = calls[k].op
      /\ d.token = calls[k].token /\ d.form = calls[k].form
  BY <1>1, <1>2 DEF CallType, Steps
<1>4. Served(k, d)
  BY <1>2, <1>3 DEF Step, Served
<1>5. QED
  BY <1>1, <1>3, <1>4, ServedKeeps

LEMMA ServeIInv == ASSUME IInv, NEW k \in DOMAIN calls, Serve(k) PROVE IInv'
<1>1. calls[k].step = "asked" /\ UNCHANGED <<session, ready, modal, over>>
  BY DEF Serve
<1>2. CASE ServeRefresh(k)
  <2>1. /\ calls[k].op \in {"restore", "renew"} /\ calls[k].token \in valid
        /\ Issue(claims[calls[k].token]) /\ (Grant(k) \/ Step(k, "denied"))
        /\ valid' = (valid \ {calls[k].token}) \union {Len(claims')}
    BY <1>2 DEF ServeRefresh, Refreshing
  <2>2. claims[calls[k].token] \in ClaimSets
    BY <2>1, PairsAre DEF IInv, SessionTyped
  <2>3. QED
    BY <1>1, <2>1, <2>2, IssuedIInv
<1>3. CASE ServeLogin(k)
  <2>1. calls[k].op \in {"login", "verify"}
    BY <1>3 DEF ServeLogin
  <2>2. ASSUME NEW S \in ClaimSets, Issue(S), valid' = valid \union {Len(claims')}, Grant(k)
        PROVE  IInv'
    <3>1. calls[k].token \notin valid
      BY <2>1, PairsAre DEF IInv, CallsInv, SessionTyped
    <3>2. valid' = (valid \ {calls[k].token}) \union {Len(claims')}
      BY <2>2, <3>1
    <3>3. QED
      BY <1>1, <2>1, <2>2, <3>2, IssuedIInv
  <2>3. CASE calls[k].op = "login" /\ Step(k, "challenged") /\ UNCHANGED service
    BY <1>1, <2>3, NotIssuedIInv DEF service
  <2>4. QED
    BY <1>3, <2>2, <2>3 DEF ServeLogin
<1>4. CASE Refuse(k)
  <2>1. calls[k].op # "logout" /\ Step(k, "denied") /\ UNCHANGED <<claims, valid>>
    BY <1>4 DEF Refuse, service
  <2>2. QED
    BY <1>1, <2>1, NotIssuedIInv
<1>5. CASE ServeLogout(k)
  BY <1>1, <1>5, ServeLogoutIInv
<1>6. QED
  BY <1>2, <1>3, <1>4, <1>5 DEF Serve

\* The pair is applied: it replaces the session's, and nobody knew it before.
LEMMA ApplySessionIInv ==
    ASSUME IInv, NEW k \in DOMAIN calls, ApplySession(k) PROVE IInv'
<1> USE DEF IInv
<1>1. /\ calls[k].step = "granted"
      /\ ref' = calls[k].pair /\ storage' = calls[k].pair /\ access' = calls[k].pair
      /\ calls' = [calls EXCEPT ![k].step = "me"]
      /\ UNCHANGED <<claims, valid, user, ready, modal, over>>
  BY DEF ApplySession, SetTokens, Step, service
<1>2. /\ Len(calls) \in Nat /\ DOMAIN calls = 1..Len(calls) /\ Len(calls) <= MaxCalls
      /\ \A i \in DOMAIN calls : calls[i] \in CallType
  BY CallsAre DEF CallsTyped
<1>3. PICK d : d = [calls[k] EXCEPT !.step = "me"]
  OBVIOUS
<1>4. /\ d \in CallType /\ d.step = "me" /\ d.op = calls[k].op
      /\ d.token = calls[k].token /\ d.form = calls[k].form
  BY <1>2, <1>3 DEF CallType, Steps
<1>5. calls' = [calls EXCEPT ![k] = d]
  BY <1>1, <1>3
<1>6. /\ DOMAIN calls' = DOMAIN calls /\ calls'[k] = d
      /\ \A i \in DOMAIN calls \ {k} : calls'[i] = calls[i]
      /\ calls' \in Seq(CallType) /\ Len(calls') = Len(calls)
  BY <1>2, <1>4, <1>5, ExceptSeq DEF CallsTyped
<1>7. /\ calls[k].pair \in valid /\ calls[k].pair \in Tokens
      /\ \A j \in DOMAIN calls : calls[j].token # calls[k].pair
      /\ \A j \in DOMAIN calls \ {k} :
            calls[j].step = "granted" => calls[j].pair # calls[k].pair
  BY <1>1, <1>2 DEF GrantedInv, CallType
<1>8. SessionTyped'
  BY <1>1, <1>7, ClaimsSame DEF SessionTyped
<1>9. CallsTyped'
  <2>1. \A i \in DOMAIN calls' : calls'[i].form => modal # "closed"
    BY <1>4, <1>6 DEF CallsTyped
  <2>2. QED
    BY <1>1, <1>2, <1>6, <2>1, ClaimsSame DEF CallsTyped
<1>10. TokensAgree'
  BY <1>1 DEF TokensAgree
<1>11. CallsInv'
  BY <1>1, <1>4, <1>6, <1>7 DEF CallsInv
<1>12. GrantedInv'
  <2> SUFFICES ASSUME NEW i \in DOMAIN calls, calls'[i].step = "granted"
               PROVE  /\ calls'[i].pair \in valid /\ calls'[i].pair # calls[k].pair
                      /\ \A j \in DOMAIN calls :
                            /\ calls'[j].token # calls'[i].pair
                            /\ calls'[j].step = "granted" /\ j # i
                                  => calls'[j].pair # calls'[i].pair
    BY <1>1, <1>6 DEF GrantedInv
  <2>1. i # k /\ calls'[i] = calls[i]
    BY <1>4, <1>6
  <2>2. \A j \in DOMAIN calls :
           /\ calls'[j].token = calls[j].token
           /\ calls'[j].step = "granted" => calls'[j] = calls[j]
    BY <1>4, <1>6
  <2>3. QED
    BY <1>7, <2>1, <2>2 DEF GrantedInv
<1>13. UsableInv'
  BY <1>1, <1>7 DEF UsableInv
<1>14. OverInv'
  BY <1>1 DEF OverInv, CallsInv
<1>15. QED
  BY <1>8, <1>9, <1>10, <1>11, <1>12, <1>13, <1>14

-----------------------------------------------------------------------------
\* Forms leave the screen, and every call stays in its place.
LEMMA DetachedKeeps ==
    ASSUME SessionTyped, CallsTyped, CallsInv, GrantedInv, UsableInv,
           calls' \in Seq(CallType), Len(calls') = Len(calls),
           \A i \in DOMAIN calls : SameCall(calls'[i], calls[i]),
           ref' \in {0, ref}, storage' \in {0, storage}, UNCHANGED valid
    PROVE  CallsInv' /\ GrantedInv' /\ UsableInv' /\ DOMAIN calls' = DOMAIN calls
<1>1. DOMAIN calls' = DOMAIN calls
  BY LenProperties DEF CallsTyped
<1>2. CallsInv' /\ GrantedInv'
  <2> DEFINE m == [i \in DOMAIN calls' |-> i]
  <2>1. /\ \A i \in DOMAIN calls' : m[i] \in DOMAIN calls /\ SameCall(calls'[i], calls[m[i]])
        /\ \A i, j \in DOMAIN calls' : i # j => m[i] # m[j]
    BY <1>1
  <2>2. \A i \in DOMAIN calls : calls[i].step = "granted" => calls[i].pair \in valid'
    BY DEF GrantedInv
  <2>3. 0 \notin valid
    BY PairsAre DEF SessionTyped
  <2> HIDE DEF m
  <2>4. QED
    BY <2>1, <2>2, <2>3, FewerCalls
<1>3. UsableInv'
  BY <1>1 DEF UsableInv, SameCall
<1>4. QED
  BY <1>1, <1>2, <1>3

\* The browser makes a call, with no token or with its refresh token; with a
\* logout it gives that token up.
LEMMA AskedKeeps ==
    ASSUME SessionTyped, CallsTyped, CallsInv, GrantedInv, UsableInv,
           NEW op \in Ops, NEW token \in {0, ref},
           op \in {"login", "verify"} => token = 0, op = "logout" => storage' = 0,
           calls' \in Seq(CallType), Len(calls') = Len(calls) + 1,
           \A i \in DOMAIN calls : SameCall(calls'[i], calls[i]),
           SameCall(calls'[Len(calls) + 1], Call(op, token)),
           ref' \in {0, ref}, storage' \in {0, storage}, UNCHANGED valid
    PROVE  /\ CallsInv' /\ GrantedInv' /\ UsableInv'
           /\ DOMAIN calls' = DOMAIN calls \union {Len(calls) + 1}
<1>1. /\ Len(calls) \in Nat /\ DOMAIN calls = 1..Len(calls)
      /\ DOMAIN calls' = 1..(Len(calls) + 1)
  BY CallsAre, LenProperties
<1>2. PICK n : n = Len(calls) + 1
  OBVIOUS
<1>3. DOMAIN calls' = DOMAIN calls \union {n} /\ n \notin DOMAIN calls
  BY <1>1, <1>2
<1>4. /\ calls'[n].op = op /\ calls'[n].token = token /\ calls'[n].step = "asked"
  BY <1>2 DEF SameCall, Call
<1>5. CallsInv'
  BY <1>3, <1>4 DEF CallsInv, SameCall
<1>6. GrantedInv'
  <2> SUFFICES ASSUME NEW i \in DOMAIN calls', calls'[i].step = "granted"
               PROVE  /\ calls'[i].pair \in valid /\ calls'[i].pair \notin {ref', storage'}
                      /\ \A j \in DOMAIN calls' :
                            /\ calls'[j].token # calls'[i].pair
                            /\ calls'[j].step = "granted" /\ j # i
                                  => calls'[j].pair # calls'[i].pair
    BY DEF GrantedInv
  <2>1. /\ i \in DOMAIN calls /\ calls[i].step = "granted" /\ calls'[i].pair = calls[i].pair
    BY <1>3, <1>4 DEF SameCall
  <2>2. /\ calls[i].pair \in valid /\ calls[i].pair \notin {ref, storage}
        /\ \A j \in DOMAIN calls :
              /\ calls[j].token # calls[i].pair
              /\ calls[j].step = "granted" /\ j # i => calls[j].pair # calls[i].pair
    BY <2>1 DEF GrantedInv
  <2>3. calls[i].pair # 0
    BY <2>2, PairsAre DEF SessionTyped
  <2>4. \A j \in DOMAIN calls : /\ calls'[j].token = calls[j].token
                                /\ calls'[j].step = calls[j].step
                                /\ calls'[j].pair = calls[j].pair
    BY DEF SameCall
  <2>5. QED
    BY <1>3, <1>4, <2>1, <2>2, <2>3, <2>4
<1>7. UsableInv'
  BY <1>3 DEF UsableInv, SameCall
<1>8. QED
  BY <1>2, <1>3, <1>5, <1>6, <1>7

\* Append adds the call, and Ask finds room for it.
LEMMA AppendCall ==
    ASSUME SessionTyped, CallsTyped, NEW op \in Ops, NEW token \in Tokens, NEW cs,
           cs = Append(calls, Call(op, token))
    PROVE  /\ cs \in Seq(CallType) /\ Len(cs) = Len(calls) + 1
           /\ DOMAIN cs = 1..(Len(calls) + 1)
           /\ \A i \in DOMAIN calls : SameCall(cs[i], calls[i])
           /\ SameCall(cs[Len(calls) + 1], Call(op, token))
           /\ cs[Len(calls) + 1].form <=> op \in {"login", "verify"}
<1>1. /\ calls \in Seq(CallType) /\ DOMAIN calls = 1..Len(calls) /\ Len(calls) \in Nat
  BY CallsAre DEF CallsTyped
<1>2. Call(op, token) \in CallType
  BY PairsAre DEF SessionTyped, Call, CallType, Steps
<1>3. /\ cs \in Seq(CallType) /\ Len(cs) = Len(calls) + 1
      /\ \A i \in 1..Len(calls) : cs[i] = calls[i]
      /\ cs[Len(calls) + 1] = Call(op, token)
  BY <1>1, <1>2, AppendProperties
<1>4. DOMAIN cs = 1..(Len(calls) + 1)
  BY <1>3, LenProperties
<1>5. \A i \in DOMAIN calls : SameCall(cs[i], calls[i])
  BY <1>1, <1>3 DEF SameCall
<1>6. SameCall(cs[Len(calls) + 1], Call(op, token))
  BY <1>3 DEF SameCall
<1>7. Call(op, token).form = (op \in {"login", "verify"})
  BY Zenon DEF Call
<1>8. QED
  BY <1>3, <1>4, <1>5, <1>6, <1>7

LEMMA RenewIInv == IInv /\ Renew => IInv'
<1> SUFFICES ASSUME IInv, Renew PROVE IInv'
  OBVIOUS
<1> USE DEF IInv
<1>1. /\ calls' = Append(calls, Call("renew", ref)) /\ Len(calls) < MaxCalls /\ ref # 0
      /\ UNCHANGED <<claims, valid, ref, storage, access, user, ready, modal, over>>
  BY DEF Renew, Ask, session, service
<1>2. "renew" \in Ops /\ ref \in Tokens /\ Len(calls) \in Nat /\ DOMAIN calls = 1..Len(calls)
  BY CallsAre DEF Ops, SessionTyped
<1>3. /\ calls' \in Seq(CallType) /\ Len(calls') = Len(calls) + 1
      /\ DOMAIN calls' = 1..(Len(calls) + 1)
      /\ \A i \in DOMAIN calls : SameCall(calls'[i], calls[i])
      /\ SameCall(calls'[Len(calls) + 1], Call("renew", ref))
      /\ ~calls'[Len(calls) + 1].form
  BY <1>1, <1>2, AppendCall
<1>4. CallsInv' /\ GrantedInv' /\ UsableInv'
  BY <1>1, <1>2, <1>3, AskedKeeps
<1>5. SessionTyped'
  BY <1>1, ClaimsSame DEF SessionTyped
<1>6. CallsTyped'
  <2>1. \A i \in DOMAIN calls' : i = Len(calls) + 1 \/ i \in DOMAIN calls
    BY <1>2, <1>3
  <2>2. \A i \in DOMAIN calls' : calls'[i].form => modal' # "closed"
    BY <1>1, <1>3, <2>1 DEF CallsTyped, SameCall
  <2>3. Len(calls') <= MaxCalls
    BY <1>1, <1>2, <1>3, AuthAssumption
  <2>4. QED
    BY <1>1, <1>3, <2>2, <2>3, ClaimsSame DEF CallsTyped
<1>7. TokensAgree' /\ OverInv'
  BY <1>1 DEF TokensAgree, OverInv
<1>8. QED
  BY <1>4, <1>5, <1>6, <1>7

\* The form is submitted: the user is back, and with it the session.
LEMMA SubmitIInv == IInv /\ Submit => IInv'
<1> SUFFICES ASSUME IInv, Submit PROVE IInv'
  OBVIOUS
<1> USE DEF IInv
<1>1. PICK op \in {"login", "verify"} : calls' = Append(calls, Call(op, 0))
  BY DEF Submit, Ask
<1>2. /\ Len(calls) < MaxCalls /\ modal # "closed" /\ over' = FALSE
      /\ UNCHANGED <<claims, valid, ref, storage, access, user, ready, modal>>
  BY DEF Submit, Ask, Shown, session, service
<1>3. op \in Ops /\ 0 \in Tokens /\ Len(calls) \in Nat /\ DOMAIN calls = 1..Len(calls)
  BY CallsAre, PairsAre DEF Ops, SessionTyped
<1>4. /\ calls' \in Seq(CallType) /\ Len(calls') = Len(calls) + 1
      /\ DOMAIN calls' = 1..(Len(calls) + 1)
      /\ \A i \in DOMAIN calls : SameCall(calls'[i], calls[i])
      /\ SameCall(calls'[Len(calls) + 1], Call(op, 0))
  BY <1>1, <1>3, AppendCall
<1>5. CallsInv' /\ GrantedInv' /\ UsableInv'
  BY <1>2, <1>3, <1>4, AskedKeeps
<1>6. SessionTyped'
  <2>1. over' \in BOOLEAN
    BY <1>2, Zenon
  <2>2. QED
    BY <1>2, <2>1, ClaimsSame DEF SessionTyped
<1>7. CallsTyped'
  <2>1. Len(calls') <= MaxCalls
    BY <1>2, <1>3, <1>4, AuthAssumption
  <2>2. QED
    BY <1>2, <1>4, <2>1, ClaimsSame DEF CallsTyped
<1>8. TokensAgree' /\ OverInv'
  BY <1>2 DEF TokensAgree, OverInv
<1>9. QED
  BY <1>5, <1>6, <1>7, <1>8

\* A logout leaves nothing of the session in the browser.
LEMMA LogoutIInv == IInv /\ Logout => IInv'
<1> SUFFICES ASSUME IInv, Logout PROVE IInv'
  OBVIOUS
<1> USE DEF IInv
<1>1. PICK cs : /\ cs = IF ref = 0 THEN calls ELSE Append(calls, Call("logout", ref))
                /\ ClearSession(cs)
  BY DEF Logout
<1>2. /\ Len(calls) < MaxCalls /\ UNCHANGED <<claims, valid, ready>>
      /\ over' = (\A c \in Calls : c.op = "logout")
      /\ ref' = 0 /\ storage' = 0 /\ access' = 0
      /\ SetUser(Anonymous, cs, modal)
  BY <1>1 DEF Logout, ClearSession, service
<1>3. /\ Len(calls) \in Nat /\ DOMAIN calls = 1..Len(calls) /\ calls \in Seq(CallType)
      /\ ref \in Tokens /\ "logout" \in Ops
  BY CallsAre DEF CallsTyped, SessionTyped, Ops
<1>4. /\ cs \in Seq(CallType) /\ Len(cs) \in {Len(calls), Len(calls) + 1}
      /\ \A i \in DOMAIN calls : i \in DOMAIN cs /\ SameCall(cs[i], calls[i])
      /\ \A i \in DOMAIN cs \ DOMAIN calls :
            i = Len(calls) + 1 /\ SameCall(cs[i], Call("logout", ref))
      /\ ref = 0 <=> Len(cs) = Len(calls)
  <2>1. CASE ref = 0
    BY <1>1, <1>3, <2>1 DEF SameCall
  <2>2. CASE ref # 0
    <3>1. cs = Append(calls, Call("logout", ref))
      BY <1>1, <2>2
    <3>2. /\ cs \in Seq(CallType) /\ Len(cs) = Len(calls) + 1
          /\ DOMAIN cs = 1..(Len(calls) + 1)
          /\ \A i \in DOMAIN calls : SameCall(cs[i], calls[i])
          /\ SameCall(cs[Len(calls) + 1], Call("logout", ref))
      BY <1>3, <3>1, AppendCall
    <3>3. Len(cs) # Len(calls)
      <4>1. \A n \in Nat : n + 1 # n
        OBVIOUS
      <4>2. QED
        BY <1>3, <3>2, <4>1
    <3>4. \A i \in DOMAIN calls : i \in DOMAIN cs
      BY <1>3, <3>2
    <3>5. \A i \in DOMAIN cs \ DOMAIN calls : i = Len(calls) + 1
      BY <1>3, <3>2
    <3>6. QED
      BY <2>2, <3>2, <3>3, <3>4, <3>5
  <2>3. QED
    BY <2>1, <2>2
<1>5. /\ calls' \in Seq(CallType) /\ Len(calls') = Len(cs) /\ DOMAIN calls' = DOMAIN cs
      /\ \A i \in DOMAIN cs : /\ SameCall(calls'[i], cs[i])
                              /\ calls'[i].form => modal # "closed"
  BY <1>2, <1>4, SetUserCalls
<1>6. /\ \A i \in DOMAIN calls : SameCall(calls'[i], calls[i])
      /\ \A i \in DOMAIN calls' \ DOMAIN calls :
            i = Len(calls) + 1 /\ SameCall(calls'[i], Call("logout", ref))
  BY <1>4, <1>5 DEF SameCall
<1>7. /\ CallsInv' /\ GrantedInv' /\ UsableInv'
  <2>1. CASE ref = 0
    <3>1. Len(calls') = Len(calls)
      BY <1>4, <1>5, <2>1
    <3>2. QED
      BY <1>2, <1>5, <1>6, <3>1, DetachedKeeps
  <2>2. CASE ref # 0
    <3>1. Len(calls') = Len(calls) + 1
      BY <1>4, <1>5, <2>2
    <3>2. Len(calls) + 1 \in DOMAIN calls' \ DOMAIN calls
      BY <1>3, <1>5, <3>1, LenProperties
    <3>3. SameCall(calls'[Len(calls) + 1], Call("logout", ref))
      BY <1>6, <3>2
    <3>4. "logout" \notin {"login", "verify"}
      OBVIOUS
    <3>5. QED
      BY <1>2, <1>3, <1>5, <1>6, <3>1, <3>3, <3>4, AskedKeeps
  <2>3. QED
    BY <2>1, <2>2
<1>8. /\ user' = Anonymous /\ Anonymous.sub = 0 /\ Anonymous.role \in Range(ROLES)
      /\ 0 \in Tokens
  BY <1>2, PairsAre, AuthenticateType DEF SetUser, SessionTyped, Anonymous
<1>9. modal' \in {modal, "credentials"} /\ (modal # "closed" => modal' # "closed")
  BY <1>2 DEF SetUser
<1>10. SessionTyped'
  <2>1. over' \in BOOLEAN
    BY <1>2, Zenon
  <2>2. QED
    BY <1>2, <1>8, <1>9, <2>1, ClaimsSame DEF SessionTyped
<1>11. CallsTyped'
  <2>1. Len(calls') \in {Len(calls), Len(calls) + 1}
    BY <1>4, <1>5
  <2>2. Len(calls) \in Nat /\ Len(calls) < MaxCalls
    BY <1>2, <1>3
  <2>3. Len(calls') <= MaxCalls
    BY <2>1, <2>2, AuthAssumption
  <2>4. QED
    BY <1>2, <1>5, <1>9, <2>3, ClaimsSame DEF CallsTyped
<1>12. TokensAgree'
  BY <1>2 DEF TokensAgree
<1>13. OverInv'
  <2> SUFFICES ASSUME over', NEW i \in DOMAIN calls'
               PROVE  calls'[i].op = "logout"
    BY <1>2, <1>8 DEF OverInv
  <2>1. CASE i \in DOMAIN calls
    <3>1. calls[i] \in Calls
      BY <2>1 DEF Calls, Range
    <3>2. QED
      BY <1>2, <1>6, <2>1, <3>1 DEF SameCall
  <2>2. CASE i \notin DOMAIN calls
    BY <1>6, <2>2 DEF SameCall, Call
  <2>3. QED
    BY <2>1, <2>2
<1>14. QED
  BY <1>7, <1>10, <1>11, <1>12, <1>13

LEMMA OpenOrCloseIInv == IInv /\ OpenOrClose => IInv'
<1> SUFFICES ASSUME IInv, OpenOrClose PROVE IInv'
  OBVIOUS
<1> USE DEF IInv
<1>1. /\ calls' = Detached(calls) /\ modal' \in {"credentials", "closed"}
      /\ UNCHANGED <<claims, valid, ref, storage, access, user, ready, over>>
  BY DEF OpenOrClose, session, service
<1>2. /\ calls' \in Seq(CallType) /\ Len(calls') = Len(calls) /\ DOMAIN calls' = DOMAIN calls
      /\ \A i \in DOMAIN calls : SameCall(calls'[i], calls[i]) /\ ~calls'[i].form
  BY <1>1, DetachedProperties DEF CallsTyped
<1>3. CallsInv' /\ GrantedInv' /\ UsableInv'
  BY <1>1, <1>2, DetachedKeeps
<1>4. SessionTyped'
  BY <1>1, ClaimsSame DEF SessionTyped
<1>5. CallsTyped'
  BY <1>1, <1>2, ClaimsSame DEF CallsTyped
<1>6. TokensAgree' /\ OverInv'
  BY <1>1, <1>2 DEF TokensAgree, OverInv, SameCall
<1>7. QED
  BY <1>3, <1>4, <1>5, <1>6

\* A page that is loaded again has at most the call that restores its session.
LEMMA ReloadIInv == IInv /\ Reload => IInv'
<1> SUFFICES ASSUME IInv, Reload PROVE IInv'
  OBVIOUS
<1> USE DEF IInv
<1>1. /\ ref' = 0 /\ access' = 0 /\ user' = Anonymous /\ modal' = "closed"
      /\ valid' \subseteq valid /\ ready' = (storage = 0)
      /\ calls' = IF storage = 0 THEN << >> ELSE <<Call("restore", storage)>>
      /\ UNCHANGED <<claims, storage, over>>
  BY DEF Reload
<1>2. /\ Anonymous.sub = 0 /\ Anonymous.role \in Range(ROLES)
      /\ 0 \in Tokens /\ storage \in Tokens
  BY PairsAre, AuthenticateType DEF SessionTyped, Anonymous
<1>3. /\ calls' \in Seq(CallType) /\ Len(calls') <= 1
      /\ \A i \in DOMAIN calls' : storage # 0 /\ calls'[i] = Call("restore", storage)
  <2>1. CASE storage = 0
    BY <1>1, <2>1
  <2>2. CASE storage # 0
    <3>1. Call("restore", storage) \in CallType
      BY <1>2 DEF Call, CallType, Ops, Steps
    <3>2. calls' = <<Call("restore", storage)>>
      BY <1>1, <2>2
    <3>3. QED
      BY <2>2, <3>1, <3>2
  <2>3. QED
    BY <2>1, <2>2
<1>4. SessionTyped'
  <2>1. ready' \in BOOLEAN
    BY <1>1, Zenon
  <2>2. QED
    BY <1>1, <1>2, <2>1, ClaimsSame DEF SessionTyped
<1>5. CallsTyped'
  <2>1. Len(calls') <= MaxCalls
    BY <1>3, LenProperties, AuthAssumption
  <2>2. "restore" \notin {"login", "verify"}
    OBVIOUS
  <2>3. ~Call("restore", storage).form
    BY <2>2 DEF Call
  <2>4. \A i \in DOMAIN calls' : ~calls'[i].form
    BY <1>3, <2>3
  <2>5. QED
    BY <1>1, <1>3, <2>1, <2>4, ClaimsSame DEF CallsTyped
<1>6. CallsInv' /\ GrantedInv' /\ UsableInv'
  BY <1>1, <1>3 DEF CallsInv, GrantedInv, UsableInv, Call
<1>7. TokensAgree'
  BY <1>1 DEF TokensAgree
<1>8. OverInv'
  BY <1>1, <1>3 DEF OverInv
<1>9. QED
  BY <1>4, <1>5, <1>6, <1>7, <1>8

-----------------------------------------------------------------------------
\* What is issued, stored and called does not depend on the time.
LEMMA TickIInv == IInv /\ Tick => IInv'
<1> SUFFICES ASSUME IInv, Tick PROVE IInv'
  OBVIOUS
<1>1. UNCHANGED <<claims, valid, ref, storage, access, user, ready, modal, calls, over>>
  BY DEF Tick, session
<1>2. SessionTyped' /\ CallsTyped' /\ TokensAgree'
  BY <1>1, ClaimsSame DEF IInv, SessionTyped, CallsTyped, TokensAgree
<1>3. QED
  BY <1>1, <1>2 DEF IInv, CallsInv, GrantedInv, UsableInv, OverInv

LEMMA NextIInv == IInv /\ [Next]_vars => IInv'
<1> SUFFICES ASSUME IInv, [Next]_vars PROVE IInv'
  OBVIOUS
<1>1. CASE Renew \/ Tick \/ Logout \/ Reload \/ OpenOrClose \/ Submit
  BY <1>1, RenewIInv, TickIInv, LogoutIInv, ReloadIInv, OpenOrCloseIInv, SubmitIInv
<1>2. ASSUME NEW k \in DOMAIN calls, Answer(k)
      PROVE  IInv'
  BY <1>2, ServeIInv, ApplySessionIInv, MeIInv, FailsIInv, ChallengedIInv DEF Answer
<1>3. CASE UNCHANGED vars
  <2>1. UNCHANGED <<claims, valid, ref, storage, access, user, ready, modal, calls, over>>
    BY <1>3 DEF vars, session, service
  <2>2. SessionTyped' /\ CallsTyped' /\ TokensAgree'
    BY <2>1, ClaimsSame DEF IInv, SessionTyped, CallsTyped, TokensAgree
  <2>3. CallsInv' /\ GrantedInv' /\ UsableInv' /\ OverInv'
    BY <2>1 DEF IInv, CallsInv, GrantedInv, UsableInv, OverInv
  <2>4. QED
    BY <2>2, <2>3 DEF IInv
<1>4. QED
  BY <1>1, <1>2, <1>3 DEF Next

\* The inductive invariant holds in every reachable state.
THEOREM Invariant == FairSpec => []IInv
<1>1. QED
  BY InitIInv, NextIInv, PTL DEF FairSpec

-----------------------------------------------------------------------------
(***************************************************************************)
(* An undisturbed session.  It makes one call at a time, so that the token *)
(* a refresh sends is the valid one, the answer of /me is about the pair   *)
(* in use, and that pair is never older than the interval and the time it  *)
(* was late by, which together are less than its life.                     *)
(***************************************************************************)
TimeTyped ==
    /\ age \in Seq(0..TTL) /\ Len(age) = Len(claims)
    /\ timer \in 0..RefreshInterval
    /\ disturbed \in BOOLEAN

\* Who a pair was issued to
Identity(p) ==
    IF p = 0 THEN Anonymous ELSE [sub |-> p, role |-> RoleFromClaims(claims[p])]

OneAtATime ==
    \A i, j \in DOMAIN calls : calls[i].op # "logout" /\ calls[j].op # "logout" => i = j
SendsValid ==
    \A i \in DOMAIN calls : Refreshing(calls[i]) /\ calls[i].step = "asked" =>
        /\ calls[i].token \in valid
        /\ \A j \in DOMAIN calls : calls[j].op = "logout" => calls[j].token # calls[i].token
NotDenied ==
    \A i \in DOMAIN calls : Refreshing(calls[i]) => calls[i].step # "denied"
AsksOfCurrent ==
    \A i \in DOMAIN calls : calls[i].step = "me" => calls[i].pair = access
UserIsCurrent ==
    (\A i \in DOMAIN calls : calls[i].step # "me") => user = Identity(access)
Renewing == \E i \in DOMAIN calls : calls[i].op = "renew" /\ calls[i].step # "me"
Fresh ==
    access # 0 /\ ~Renewing => age[access] < timer + (TTL - RefreshInterval)

Calm ==
    /\ OneAtATime /\ SendsValid /\ NotDenied
    /\ AsksOfCurrent /\ UserIsCurrent /\ Fresh

CalmInv == TimeTyped /\ (~disturbed => Calm)

\* A pair that is fresh stands for the one it was issued to.
LEMMA FreshIsValid ==
    ASSUME IInv, TimeTyped, Fresh, ~Renewing
    PROVE  Authenticate(access) = Identity(access)
<1>1. CASE access = 0
  BY <1>1 DEF Authenticate, Identity
<1>2. CASE access # 0
  <2>1. access \in 1..Len(age)
    BY <1>2 DEF IInv, SessionTyped, Tokens, Pairs, TimeTyped
  <2>2. age[access] \in 0..TTL /\ timer \in 0..RefreshInterval
    BY <2>1, ElementOfSeq DEF TimeTyped
  <2>3. age[access] < timer + (TTL - RefreshInterval)
    BY <1>2 DEF Fresh
  <2>4. ~(age[access] >= TTL)
    BY <2>2, <2>3, AuthAssumption
  <2>5. QED
    BY <1>2, <2>4 DEF Authenticate, Identity
<1>3. QED
  BY <1>1, <1>2

-----------------------------------------------------------------------------
\* Every step keeps the clocks in their range.
LEMMA TimeStep == IInv /\ TimeTyped /\ [Next]_vars => TimeTyped'
<1> SUFFICES ASSUME IInv, TimeTyped, [Next]_vars PROVE TimeTyped'
  OBVIOUS
<1> USE AuthAssumption
<1>1. 0 \in 0..TTL /\ 0 \in 0..RefreshInterval
  OBVIOUS
<1>2. ASSUME NEW k \in DOMAIN calls, Answer(k)
      PROVE  TimeTyped'
  <2>1. ASSUME UNCHANGED <<claims, age>>, timer' \in {timer, 0}, disturbed' \in BOOLEAN
        PROVE  TimeTyped'
    BY <1>1, <2>1 DEF TimeTyped
  <2>2. ASSUME NEW S, Issue(S), UNCHANGED timer, disturbed' \in BOOLEAN
        PROVE  TimeTyped'
    <3>1. claims' = Append(claims, S) /\ age' = Append(age, 0)
      BY <2>2 DEF Issue
    <3>2. claims \in Seq(ClaimSets) /\ age \in Seq(0..TTL)
      BY DEF IInv, SessionTyped, TimeTyped
    <3>3. age' \in Seq(0..TTL) /\ Len(age') = Len(age) + 1
      BY <1>1, <3>1, <3>2, AppendProperties
    <3>4. Len(claims') = Len(claims) + 1
      BY <3>1, <3>2
    <3>5. QED
      BY <2>2, <3>3, <3>4 DEF TimeTyped
  <2>3. CASE Serve(k)
    <3>1. UNCHANGED timer
      BY <2>3 DEF Serve
    <3>2. CASE ServeRefresh(k)
      <4>1. disturbed' \in BOOLEAN /\ Issue(claims[calls[k].token])
        BY <3>2, Zenon DEF ServeRefresh, TimeTyped
      <4>2. QED
        BY <2>2, <3>1, <4>1
    <3>3. CASE ServeLogin(k)
      <4>1. disturbed' \in BOOLEAN
        BY <3>3 DEF ServeLogin, TimeTyped
      <4>2. (\E S \in ClaimSets : Issue(S)) \/ UNCHANGED <<claims, age>>
        BY <3>3 DEF ServeLogin, service
      <4>3. QED
        BY <2>1, <2>2, <3>1, <4>1, <4>2
    <3>4. CASE Refuse(k)
      <4>1. disturbed' \in BOOLEAN /\ UNCHANGED <<claims, age>>
        BY <3>4, Zenon DEF Refuse, TimeTyped, service
      <4>2. QED
        BY <2>1, <3>1, <4>1
    <3>5. CASE ServeLogout(k)
      <4>1. disturbed' \in BOOLEAN /\ UNCHANGED <<claims, age>>
        BY <3>5 DEF ServeLogout, TimeTyped
      <4>2. QED
        BY <2>1, <3>1, <4>1
    <3>6. QED
      BY <2>3, <3>2, <3>3, <3>4, <3>5 DEF Serve
  <2>4. CASE ApplySession(k)
    <3>1. disturbed' \in BOOLEAN /\ UNCHANGED <<claims, age>> /\ timer' = 0
      BY <2>4, Zenon DEF ApplySession, service
    <3>2. QED
      BY <2>1, <3>1
  <2>5. CASE Me(k)
    <3>1. disturbed' \in BOOLEAN /\ UNCHANGED <<claims, age, timer>>
      BY <2>5, Zenon DEF Me, TimeTyped, service
    <3>2. QED
      BY <2>1, <3>1
  <2>6. CASE Fails(k)
    <3>1. UNCHANGED <<claims, age>>
      BY <2>6 DEF Fails, service
    <3>2. CASE Refreshing(calls[k])
      <4>1. disturbed' \in BOOLEAN /\ timer' = 0
        BY <2>6, <3>2, Zenon DEF Fails, ClearSession, Busy
      <4>2. QED
        BY <2>1, <3>1, <4>1
    <3>3. CASE ~Refreshing(calls[k])
      <4>1. disturbed' \in BOOLEAN /\ timer' = timer
        BY <2>6, <3>3, Zenon DEF Fails, TimeTyped
      <4>2. QED
        BY <2>1, <3>1, <4>1
    <3>4. QED
      BY <3>2, <3>3
  <2>7. CASE Challenged(k)
    <3>1. disturbed' \in BOOLEAN /\ UNCHANGED <<claims, age, timer>>
      BY <2>7 DEF Challenged, TimeTyped, service
    <3>2. QED
      BY <2>1, <3>1
  <2>8. QED
    BY <1>2, <2>3, <2>4, <2>5, <2>6, <2>7 DEF Answer
<1>3. CASE Renew
  <2>1. disturbed' \in BOOLEAN
    BY <1>3, Zenon DEF Renew, Ask, TimeTyped
  <2>2. QED
    BY <1>1, <1>3, <2>1 DEF Renew, TimeTyped, service
<1>4. CASE Submit
  <2>1. disturbed' \in BOOLEAN
    BY <1>4, Zenon DEF Submit, Ask, TimeTyped
  <2>2. QED
    BY <1>4, <2>1 DEF Submit, TimeTyped, service
<1>5. CASE Logout
  <2>1. disturbed' \in BOOLEAN
    BY <1>5, Zenon DEF Logout, ClearSession, Busy
  <2>2. QED
    BY <1>1, <1>5, <2>1 DEF Logout, ClearSession, TimeTyped, service
<1>6. CASE Reload
  <2>1. disturbed' \in BOOLEAN
    BY <1>6, Zenon DEF Reload
  <2>2. QED
    BY <1>1, <1>6, <2>1 DEF Reload, TimeTyped
<1>7. CASE OpenOrClose
  BY <1>7 DEF OpenOrClose, TimeTyped, service
<1>8. CASE Tick
  <2>1. /\ UNCHANGED <<claims, disturbed>>
        /\ age' = [p \in 1..Len(claims) |-> IF age[p] < TTL THEN age[p] + 1 ELSE TTL]
        /\ timer' = IF access = 0 THEN timer ELSE timer + 1
        /\ ~(access # 0 /\ timer = RefreshInterval)
    BY <1>8 DEF Tick, Pairs, Due
  <2>2. Len(claims) \in Nat /\ \A p \in 1..Len(claims) : age[p] \in 0..TTL
    BY ElementOfSeq, LenProperties DEF TimeTyped, IInv, SessionTyped
  <2>3. age' \in [1..Len(claims) -> 0..TTL]
    BY <2>1, <2>2
  <2>4. age' \in Seq(0..TTL) /\ Len(age') = Len(claims)
    BY <2>2, <2>3, SeqDef, LenProperties
  <2>5. timer' \in 0..RefreshInterval
    BY <2>1 DEF TimeTyped
  <2>6. QED
    BY <2>1, <2>4, <2>5 DEF TimeTyped
<1>9. CASE UNCHANGED vars
  BY <1>9 DEF vars, service, TimeTyped
<1>10. QED
  BY <1>2, <1>3, <1>4, <1>5, <1>6, <1>7, <1>8, <1>9 DEF Next

-----------------------------------------------------------------------------
\* A step that only takes calls away, none of which refreshes or asks who the
\* user is, or forms off the screen.
LEMMA CalmFewer ==
    ASSUME Calm, NEW m,
           \A i \in DOMAIN calls' : m[i] \in DOMAIN calls /\ SameCall(calls'[i], calls[m[i]]),
           \A i, j \in DOMAIN calls' : i # j => m[i] # m[j],
           \A i \in DOMAIN calls : calls[i].step = "me" \/ Refreshing(calls[i]) =>
               \E j \in DOMAIN calls' : m[j] = i,
           \A i \in DOMAIN calls : Refreshing(calls[i]) /\ calls[i].step = "asked" =>
               calls[i].token \in valid',
           UNCHANGED <<claims, age, access, user, timer>>
    PROVE  Calm'
<1>1. OneAtATime' /\ NotDenied' /\ AsksOfCurrent'
  BY DEF Calm, OneAtATime, NotDenied, AsksOfCurrent, SameCall, Refreshing
<1>2. SendsValid'
  BY DEF Calm, SendsValid, SameCall, Refreshing
<1>3. UserIsCurrent'
  <2> SUFFICES ASSUME \A j \in DOMAIN calls' : calls'[j].step # "me"
               PROVE  user = Identity(access)
    BY DEF UserIsCurrent, Identity
  <2>1. \A i \in DOMAIN calls : calls[i].step # "me"
    BY DEF SameCall
  <2>2. QED
    BY <2>1 DEF Calm, UserIsCurrent
<1>4. Fresh'
  <2>1. Renewing => Renewing'
    BY DEF Renewing, Refreshing, SameCall
  <2>2. QED
    BY <2>1 DEF Calm, Fresh
<1>5. QED
  BY <1>1, <1>2, <1>3, <1>4 DEF Calm

\* A session that was closed with nothing else in flight is undisturbed.
LEMMA CalmCleared ==
    ASSUME CallsInv', access' = 0, user' = Anonymous,
           \A i \in DOMAIN calls' : calls'[i].op = "logout"
    PROVE  Calm'
<1>1. \A i \in DOMAIN calls' : calls'[i].step = "asked" /\ ~Refreshing(calls'[i])
  BY DEF CallsInv, Refreshing
<1>2. QED
  BY <1>1 DEF Calm, OneAtATime, SendsValid, NotDenied, AsksOfCurrent,
              UserIsCurrent, Identity, Fresh, Refreshing

\* Call k is answered for good.
LEMMA CalmAnswered ==
    ASSUME IInv, Calm, NEW k \in DOMAIN calls, calls' = RemoveAt(calls, k),
           calls[k].step # "me", ~Refreshing(calls[k]),
           \A i \in DOMAIN calls : Refreshing(calls[i]) /\ calls[i].step = "asked" =>
               calls[i].token \in valid',
           UNCHANGED <<claims, age, access, user, timer>>
    PROVE  Calm'
<1>1. calls' \in Seq(CallType) /\ Without(calls', k) /\ DOMAIN calls' = 1..(Len(calls) - 1)
  BY RemovedIsWithout DEF IInv
<1>2. /\ \A i \in DOMAIN calls' : Skip(i, k) \in DOMAIN calls
      /\ \A i, j \in DOMAIN calls' : i # j => Skip(i, k) # Skip(j, k)
      /\ \A i \in DOMAIN calls \ {k} : \E j \in DOMAIN calls' : Skip(j, k) = i
  BY <1>1, RemainingCalls DEF IInv
<1> DEFINE m == [i \in DOMAIN calls' |-> Skip(i, k)]
<1>3. /\ \A i \in DOMAIN calls' : m[i] \in DOMAIN calls /\ SameCall(calls'[i], calls[m[i]])
      /\ \A i, j \in DOMAIN calls' : i # j => m[i] # m[j]
  BY <1>1, <1>2 DEF Without
<1>4. \A i \in DOMAIN calls : calls[i].step = "me" \/ Refreshing(calls[i]) =>
         \E j \in DOMAIN calls' : m[j] = i
  BY <1>2
<1> HIDE DEF m
<1>5. QED
  BY <1>3, <1>4, CalmFewer

\* If nothing but a logout is left in flight without call k, k was alone.
LEMMA AloneWithout ==
    ASSUME IInv, NEW k \in DOMAIN calls, NEW cs, Without(cs, k), cs \in Seq(CallType)
    PROVE  ~Busy(cs) <=> \A i \in DOMAIN calls \ {k} : calls[i].op = "logout"
<1>1. /\ \A i \in DOMAIN cs : Skip(i, k) \in DOMAIN calls /\ Skip(i, k) # k
      /\ \A i \in DOMAIN calls \ {k} : \E j \in DOMAIN cs : Skip(j, k) = i
  BY RemainingCalls DEF IInv
<1>2. QED
  BY <1>1 DEF Busy, Without, SameCall

-----------------------------------------------------------------------------
\* The service goes on with call k as d.  An undisturbed refresh is not denied.
LEMMA CalmServed ==
    ASSUME IInv, TimeTyped, Calm, NEW k \in DOMAIN calls, NEW d, Served(k, d),
           calls[k].step = "asked", calls[k].op # "logout",
           d.step \in {"granted", "challenged", "denied"},
           Refreshing(d) => d.step # "denied", UNCHANGED timer,
           \A p \in Pairs : claims'[p] = claims[p] /\ age'[p] = age[p]
    PROVE  Calm'
<1>1. UNCHANGED <<access, user>>
  BY DEF Served, session
<1>2. /\ DOMAIN calls' = DOMAIN calls /\ calls'[k] = d
      /\ \A i \in DOMAIN calls \ {k} : calls'[i] = calls[i]
  BY CallsAre DEF Served, IInv
<1>3. d.op = calls[k].op /\ d.token = calls[k].token
  BY DEF Served
<1>4. \A i \in DOMAIN calls \ {k} : calls[i].op = "logout"
  BY DEF Calm, OneAtATime
<1>5. OneAtATime'
  BY <1>2, <1>4 DEF OneAtATime
<1>6. SendsValid' /\ NotDenied' /\ AsksOfCurrent'
  BY <1>1, <1>2, <1>4 DEF Calm, SendsValid, NotDenied, AsksOfCurrent, Refreshing
<1>7. access = 0 \/ access \in Pairs
  BY DEF IInv, SessionTyped, Tokens
<1>8. Identity(access)' = Identity(access)
  BY <1>1, <1>7 DEF Identity
<1>9. UserIsCurrent'
  <2>1. \A i \in DOMAIN calls : calls'[i].step = "me" <=> calls[i].step = "me"
    BY <1>2
  <2>2. QED
    BY <1>1, <1>2, <1>8, <2>1 DEF Calm, UserIsCurrent
<1>10. Fresh'
  <2>1. Renewing' <=> Renewing
    BY <1>2, <1>3 DEF Renewing
  <2>2. access # 0 => age'[access] = age[access]
    BY <1>7
  <2>3. QED
    BY <1>1, <2>1, <2>2 DEF Calm, Fresh
<1>11. QED
  BY <1>5, <1>6, <1>9, <1>10 DEF Calm

LEMMA CalmServe ==
    ASSUME IInv, TimeTyped, ~disturbed => Calm, NEW k \in DOMAIN calls, Serve(k), ~disturbed'
    PROVE  Calm'
<1>1. calls[k].step = "asked" /\ UNCHANGED <<session, timer, ready, modal, over>>
  BY DEF Serve
<1>2. ASSUME NEW S \in ClaimSets, Issue(S)
      PROVE  \A p \in Pairs : claims'[p] = claims[p] /\ age'[p] = age[p]
  <2>1. /\ claims \in Seq(ClaimSets) /\ age \in Seq(0..TTL) /\ Len(age) = Len(claims)
        /\ claims' = Append(claims, S) /\ age' = Append(age, 0) /\ 0 \in 0..TTL
    BY <1>2, AuthAssumption DEF IInv, SessionTyped, TimeTyped, Issue
  <2>2. QED
    BY <2>1, AppendProperties DEF Pairs
<1>3. ASSUME Grant(k)
      PROVE  /\ Served(k, [calls[k] EXCEPT !.step = "granted", !.pair = Len(claims')])
             /\ [calls[k] EXCEPT !.step = "granted", !.pair = Len(claims')].step = "granted"
  <2>1. calls[k] \in CallType
    BY CallsAre DEF IInv
  <2>2. QED
    BY <1>1, <1>3, <2>1 DEF Grant, Served, CallType
<1>4. ASSUME NEW step, Step(k, step)
      PROVE  /\ Served(k, [calls[k] EXCEPT !.step = step])
             /\ [calls[k] EXCEPT !.step = step].step = step
             /\ [calls[k] EXCEPT !.step = step].op = calls[k].op
  <2>1. calls[k] \in CallType
    BY CallsAre DEF IInv
  <2>2. QED
    BY <1>1, <1>4, <2>1 DEF Step, Served, CallType
<1>5. CASE ServeRefresh(k)
  <2>1. /\ Grant(k) /\ ~disturbed /\ calls[k].op # "logout" /\ calls[k].token \in valid
        /\ Issue(claims[calls[k].token])
    BY <1>5 DEF ServeRefresh, Refreshing
  <2>2. claims[calls[k].token] \in ClaimSets
    BY <2>1, PairsAre DEF IInv, SessionTyped
  <2>3. PICK d : d = [calls[k] EXCEPT !.step = "granted", !.pair = Len(claims')]
    OBVIOUS
  <2>4. Served(k, d) /\ d.step = "granted"
    BY <1>3, <2>1, <2>3
  <2>5. QED
    BY <1>1, <1>2, <2>1, <2>2, <2>4, CalmServed
<1>6. CASE ServeLogin(k)
  <2>1. ~disturbed /\ calls[k].op \in {"login", "verify"}
    BY <1>6 DEF ServeLogin
  <2>2. CASE \E S \in ClaimSets : Issue(S) /\ Grant(k)
    <3>1. PICK d : d = [calls[k] EXCEPT !.step = "granted", !.pair = Len(claims')]
      OBVIOUS
    <3>2. Served(k, d) /\ d.step = "granted"
      BY <1>3, <2>2, <3>1
    <3>3. QED
      BY <1>1, <1>2, <2>1, <2>2, <3>2, CalmServed
  <2>3. CASE Step(k, "challenged") /\ UNCHANGED service
    <3>1. PICK d : d = [calls[k] EXCEPT !.step = "challenged"]
      OBVIOUS
    <3>2. Served(k, d) /\ d.step = "challenged"
      BY <1>4, <2>3, <3>1
    <3>3. QED
      BY <1>1, <2>1, <2>3, <3>2, CalmServed DEF service
  <2>4. QED
    BY <1>6, <2>2, <2>3 DEF ServeLogin
<1>7. CASE Refuse(k)
  <2>1. /\ ~disturbed /\ calls[k].op # "logout" /\ Step(k, "denied") /\ UNCHANGED service
        /\ ~(Refreshing(calls[k]) /\ calls[k].token \in valid)
    BY <1>7, Zenon DEF Refuse
  <2>2. ~Refreshing(calls[k])
    BY <1>1, <2>1 DEF Calm, SendsValid
  <2>3. PICK d : d = [calls[k] EXCEPT !.step = "denied"]
    OBVIOUS
  <2>4. Served(k, d) /\ d.step = "denied" /\ d.op = calls[k].op
    BY <1>4, <2>1, <2>3
  <2>5. ~Refreshing(d)
    BY <2>2, <2>4 DEF Refreshing
  <2>6. QED
    BY <1>1, <2>1, <2>4, <2>5, CalmServed DEF service
<1>8. CASE ServeLogout(k)
  <2>1. /\ ~disturbed /\ calls[k].op = "logout" /\ calls' = RemoveAt(calls, k)
        /\ UNCHANGED <<claims, age>> /\ valid \ {calls[k].token} \subseteq valid'
    BY <1>8 DEF ServeLogout
  <2>2. \A i \in DOMAIN calls : Refreshing(calls[i]) /\ calls[i].step = "asked" =>
            calls[i].token \in valid'
    BY <2>1 DEF Calm, SendsValid
  <2>3. UNCHANGED <<access, user, timer>>
    BY <1>1 DEF session
  <2>4. QED
    BY <1>1, <2>1, <2>2, <2>3, CalmAnswered DEF Refreshing
<1>9. QED
  BY <1>5, <1>6, <1>7, <1>8 DEF Serve

\* A pair that is applied in time and alone opens an undisturbed session.
LEMMA CalmApply ==
    ASSUME IInv, TimeTyped, NEW k \in DOMAIN calls, ApplySession(k), ~disturbed'
    PROVE  Calm'
<1>1. /\ calls[k].step = "granted" /\ access' = calls[k].pair /\ timer' = 0
      /\ calls' = [calls EXCEPT ![k].step = "me"] /\ UNCHANGED <<claims, age>>
      /\ ~Busy(RemoveAt(calls, k)) /\ ~Late(calls[k].pair)
  BY Zenon DEF ApplySession, SetTokens, Step, service
<1>2. calls[k].op # "logout" /\ calls[k].pair \in 1..Len(age)
  BY <1>1 DEF IInv, CallsInv, GrantedInv, SessionTyped, TimeTyped, Pairs
<1>3. \A i \in DOMAIN calls \ {k} : calls[i].op = "logout" /\ calls[i].step = "asked"
  <2>1. PICK cs : cs = RemoveAt(calls, k)
    OBVIOUS
  <2>2. Without(cs, k) /\ cs \in Seq(CallType)
    BY <2>1, RemovedIsWithout DEF IInv
  <2>3. \A i \in DOMAIN calls \ {k} : calls[i].op = "logout"
    BY <1>1, <2>1, <2>2, AloneWithout
  <2>4. QED
    BY <2>3 DEF IInv, CallsInv
<1>4. /\ DOMAIN calls' = DOMAIN calls
      /\ \A i \in DOMAIN calls \ {k} : calls'[i] = calls[i]
      /\ calls'[k].step = "me" /\ calls'[k].pair = calls[k].pair
  <2>1. calls[k] \in CallType
    BY CallsAre DEF IInv
  <2>2. QED
    BY <1>1, <2>1 DEF CallType
<1>5. OneAtATime' /\ SendsValid' /\ NotDenied' /\ AsksOfCurrent' /\ UserIsCurrent'
  BY <1>1, <1>3, <1>4
  DEF OneAtATime, SendsValid, NotDenied, AsksOfCurrent, UserIsCurrent, Refreshing
<1>6. Fresh'
  <2>1. age[calls[k].pair] \in 0..TTL /\ TTL \in Nat /\ RefreshInterval \in Nat
    BY <1>2, AuthAssumption, ElementOfSeq DEF TimeTyped
  <2>2. ~(age[calls[k].pair] >= TTL - RefreshInterval)
    BY <1>1 DEF Late
  <2>3. age[calls[k].pair] < 0 + (TTL - RefreshInterval)
    BY <2>1, <2>2
  <2>4. QED
    BY <1>1, <2>3 DEF Fresh
<1>7. QED
  BY <1>5, <1>6 DEF Calm

\* The answer of /me is about the pair in use, which has not expired.
LEMMA CalmMe ==
    ASSUME IInv, TimeTyped, ~disturbed => Calm, NEW k \in DOMAIN calls, Me(k), ~disturbed'
    PROVE  Calm'
<1>1. /\ calls[k].step = "me" /\ ~disturbed
      /\ UNCHANGED <<claims, age, valid, access, timer>>
  BY Zenon DEF Me, service
<1>2. PICK u : /\ u = Authenticate(calls[k].pair)
               /\ SetUser(u, RemoveAt(calls, k),
                          IF Refreshing(calls[k]) THEN modal ELSE "closed")
  BY <1>1, Zenon DEF Me
<1>3. PICK form : form = IF Refreshing(calls[k]) THEN modal ELSE "closed"
  OBVIOUS
<1>4. SetUser(u, RemoveAt(calls, k), form) /\ (form = "closed" \/ form = modal)
  BY <1>2, <1>3
<1>5. calls' \in Seq(CallType) /\ Without(calls', k)
  BY <1>4, SetUserWithout DEF IInv
<1>6. calls[k].op # "logout"
  BY <1>1 DEF IInv, CallsInv
<1>7. \A i \in DOMAIN calls \ {k} : calls[i].op = "logout"
  BY <1>1, <1>6 DEF Calm, OneAtATime
<1>8. \A i \in DOMAIN calls' : calls'[i].op = "logout" /\ calls'[i].step = "asked"
  <2>1. ~Busy(calls')
    BY <1>5, <1>7, AloneWithout
  <2>2. CallsInv'
    BY MeIInv DEF IInv
  <2>3. QED
    BY <2>1, <2>2 DEF Busy, CallsInv
<1>9. ~Renewing
  BY <1>1, <1>7 DEF Renewing
<1>10. user' = Identity(access)
  <2>1. Authenticate(access) = Identity(access)
    BY <1>1, <1>9, FreshIsValid DEF Calm
  <2>2. calls[k].pair = access
    BY <1>1 DEF Calm, AsksOfCurrent
  <2>3. QED
    BY <1>2, <2>1, <2>2 DEF SetUser
<1>11. OneAtATime' /\ SendsValid' /\ NotDenied' /\ AsksOfCurrent'
  BY <1>8 DEF OneAtATime, SendsValid, NotDenied, AsksOfCurrent, Refreshing
<1>12. UserIsCurrent'
  BY <1>1, <1>10 DEF UserIsCurrent, Identity
<1>13. Fresh'
  BY <1>1, <1>9 DEF Calm, Fresh
<1>14. QED
  BY <1>11, <1>12, <1>13 DEF Calm

LEMMA CalmFails ==
    ASSUME IInv, ~disturbed => Calm, NEW k \in DOMAIN calls, Fails(k), ~disturbed'
    PROVE  Calm'
<1>1. calls[k].step \in {"denied", "me"} /\ UNCHANGED <<claims, age, valid>>
  BY DEF Fails, service
<1>2. CASE Refreshing(calls[k])
  <2>1. /\ access' = 0 /\ SetUser(Anonymous, RemoveAt(calls, k), modal)
        /\ ~Busy(RemoveAt(calls, k))
    BY <1>2, Zenon DEF Fails, ClearSession
  <2>2. PICK cs : cs = RemoveAt(calls, k)
    OBVIOUS
  <2>3. Without(cs, k) /\ cs \in Seq(CallType)
    BY <2>2, RemovedIsWithout DEF IInv
  <2>4. calls' \in Seq(CallType) /\ Without(calls', k)
    BY <2>1, SetUserWithout DEF IInv
  <2>5. ~Busy(calls')
    BY <2>1, <2>2, <2>3, <2>4, AloneWithout
  <2>6. CallsInv'
    BY FailsIInv DEF IInv
  <2>7. QED
    BY <2>1, <2>5, <2>6, CalmCleared DEF Busy, SetUser
<1>3. CASE ~Refreshing(calls[k])
  <2>1. /\ calls' = RemoveAt(calls, k) /\ ~disturbed /\ calls[k].step # "me"
        /\ UNCHANGED <<session, timer>>
    BY <1>3, Zenon DEF Fails
  <2>2. \A i \in DOMAIN calls : Refreshing(calls[i]) /\ calls[i].step = "asked" =>
            calls[i].token \in valid'
    BY <1>1, <2>1 DEF Calm, SendsValid
  <2>3. QED
    BY <1>1, <1>3, <2>1, <2>2, CalmAnswered DEF session
<1>4. QED
  BY <1>2, <1>3

LEMMA CalmChallenged ==
    ASSUME IInv, ~disturbed => Calm, NEW k \in DOMAIN calls, Challenged(k), ~disturbed'
    PROVE  Calm'
<1>1. /\ calls[k].step = "challenged" /\ calls' = RemoveAt(calls, k) /\ ~disturbed
      /\ UNCHANGED <<claims, age, valid, access, user, timer>>
  BY DEF Challenged, service, session
<1>2. ~Refreshing(calls[k])
  BY <1>1 DEF IInv, CallsInv, Refreshing
<1>3. \A i \in DOMAIN calls : Refreshing(calls[i]) /\ calls[i].step = "asked" =>
          calls[i].token \in valid'
  BY <1>1 DEF Calm, SendsValid
<1>4. QED
  BY <1>1, <1>2, <1>3, CalmAnswered

-----------------------------------------------------------------------------
\* A call is made when none but logouts is in flight; a renewal sends the token
\* that is stored, which is valid.
LEMMA CalmAsked ==
    ASSUME IInv, Calm, NEW op \in {"renew", "login", "verify"}, NEW token \in Tokens,
           calls' = Append(calls, Call(op, token)), ~Busy(calls),
           op = "renew" => token = storage /\ storage # 0,
           UNCHANGED <<claims, age, valid, access, user>>,
           op # "renew" => UNCHANGED timer
    PROVE  Calm'
<1>1. PICK n : n = Len(calls) + 1
  OBVIOUS
<1>2. /\ DOMAIN calls' = DOMAIN calls \union {n} /\ n \notin DOMAIN calls
      /\ \A i \in DOMAIN calls : SameCall(calls'[i], calls[i])
      /\ calls'[n].op = op /\ calls'[n].token = token /\ calls'[n].step = "asked"
  <2>1. op \in Ops
    BY DEF Ops
  <2>2. /\ DOMAIN calls' = 1..(Len(calls) + 1)
        /\ \A i \in DOMAIN calls : SameCall(calls'[i], calls[i])
        /\ SameCall(calls'[Len(calls) + 1], Call(op, token))
    BY <2>1, AppendCall DEF IInv
  <2>3. DOMAIN calls = 1..Len(calls) /\ Len(calls) \in Nat
    BY CallsAre DEF IInv
  <2>4. QED
    BY <1>1, <2>2, <2>3 DEF SameCall, Call
<1>3. \A i \in DOMAIN calls : calls[i].op = "logout" /\ calls[i].step = "asked"
  BY DEF Busy, IInv, CallsInv
<1>4. \A i \in DOMAIN calls : /\ calls'[i].op = "logout" /\ calls'[i].step = "asked"
                              /\ calls'[i].token = calls[i].token
  BY <1>2, <1>3 DEF SameCall
<1>5. OneAtATime' /\ NotDenied' /\ AsksOfCurrent'
  BY <1>2, <1>4 DEF OneAtATime, NotDenied, AsksOfCurrent, Refreshing
<1>6. SendsValid'
  <2>1. op = "renew" => storage \in valid /\ \A i \in DOMAIN calls : calls[i].token # storage
    BY <1>3 DEF IInv, CallsInv, UsableInv
  <2>2. ~Refreshing(calls'[n]) \/ op = "renew"
    BY <1>2 DEF Refreshing
  <2>3. \A i \in DOMAIN calls : ~Refreshing(calls'[i])
    BY <1>4 DEF Refreshing
  <2>4. QED
    BY <1>2, <1>4, <2>1, <2>2, <2>3 DEF SendsValid
<1>7. UserIsCurrent'
  BY <1>3 DEF Calm, UserIsCurrent, Identity
<1>8. Fresh'
  <2>1. CASE op = "renew"
    BY <1>2, <2>1 DEF Fresh, Renewing
  <2>2. CASE op # "renew"
    <3>1. ~Renewing
      BY <1>3 DEF Renewing
    <3>2. QED
      BY <2>2, <3>1 DEF Calm, Fresh
  <2>3. QED
    BY <2>1, <2>2
<1>9. QED
  BY <1>5, <1>6, <1>7, <1>8 DEF Calm

LEMMA CalmRenew ==
    ASSUME IInv, ~disturbed => Calm, Renew, ~disturbed' PROVE Calm'
<1>1. /\ ref # 0 /\ calls' = Append(calls, Call("renew", ref)) /\ ~disturbed /\ ~Busy(calls)
      /\ UNCHANGED <<claims, age, valid, access, user>>
  BY Zenon DEF Renew, Ask, service, session
<1>2. ref = storage /\ ref \in Tokens
  BY <1>1 DEF IInv, TokensAgree, SessionTyped
<1>3. QED
  BY <1>1, <1>2, CalmAsked

LEMMA CalmSubmit ==
    ASSUME IInv, ~disturbed => Calm, Submit, ~disturbed' PROVE Calm'
<1>1. PICK op \in {"login", "verify"} : calls' = Append(calls, Call(op, 0))
  BY DEF Submit, Ask
<1>2. ~disturbed /\ ~Busy(calls) /\ UNCHANGED <<claims, age, valid, access, user, timer>>
  BY Zenon DEF Submit, Ask, service, session
<1>3. 0 \in Tokens
  BY DEF Tokens
<1>4. QED
  BY <1>1, <1>2, <1>3, CalmAsked

LEMMA CalmLogout ==
    ASSUME IInv, IInv', Logout, ~disturbed' PROVE Calm'
<1>1. PICK cs : /\ cs = IF ref = 0 THEN calls ELSE Append(calls, Call("logout", ref))
                /\ ClearSession(cs)
  BY DEF Logout
<1>2. access' = 0 /\ SetUser(Anonymous, cs, modal) /\ ~Busy(cs)
  BY <1>1, Zenon DEF ClearSession
<1>3. cs \in Seq(CallType)
  <2>1. calls \in Seq(CallType) /\ "logout" \in Ops /\ ref \in Tokens
    BY DEF IInv, CallsTyped, SessionTyped, Ops
  <2>2. QED
    BY <1>1, <2>1, AppendCall DEF IInv
<1>4. DOMAIN calls' = DOMAIN cs /\ \A i \in DOMAIN cs : SameCall(calls'[i], cs[i])
  BY <1>2, <1>3, SetUserCalls
<1>5. \A i \in DOMAIN calls' : calls'[i].op = "logout"
  BY <1>2, <1>4 DEF Busy, SameCall
<1>6. QED
  BY <1>2, <1>5, CalmCleared DEF SetUser, IInv

\* A reload finds the stored token valid unless a call was using it up.
LEMMA CalmReload == ASSUME IInv, Reload, ~disturbed' PROVE Calm'
<1>1. /\ access' = 0 /\ user' = Anonymous
      /\ calls' = IF storage = 0 THEN << >> ELSE <<Call("restore", storage)>>
      /\ \E S \in SUBSET {c.token : c \in Calls} : valid' = valid \ S
      /\ ~(storage # 0 /\ \E c \in Calls : c.token = storage)
  BY Zenon DEF Reload
<1>2. ASSUME NEW i \in DOMAIN calls'
      PROVE  /\ i = 1 /\ calls'[i].op = "restore" /\ calls'[i].step = "asked"
             /\ calls'[i].token = storage /\ storage # 0
  <2>1. CASE storage = 0
    BY <1>1, <1>2, <2>1
  <2>2. CASE storage # 0
    BY <1>1, <1>2, <2>2 DEF Call
  <2>3. QED
    BY <2>1, <2>2
<1>3. storage # 0 => storage \in valid'
  <2> SUFFICES ASSUME storage # 0 PROVE storage \in valid'
    OBVIOUS
  <2>1. \A i \in DOMAIN calls : calls[i] \in Calls
    BY DEF Calls, Range
  <2>2. \A c \in Calls : c.token # storage
    BY <1>1
  <2>3. storage \in valid
    BY <2>1, <2>2 DEF IInv, UsableInv
  <2>4. QED
    BY <1>1, <2>2, <2>3
<1>4. OneAtATime' /\ SendsValid' /\ NotDenied' /\ AsksOfCurrent'
  BY <1>2, <1>3 DEF OneAtATime, SendsValid, NotDenied, AsksOfCurrent
<1>5. UserIsCurrent' /\ Fresh'
  BY <1>1 DEF UserIsCurrent, Identity, Fresh
<1>6. QED
  BY <1>4, <1>5 DEF Calm

LEMMA CalmOpenOrClose ==
    ASSUME IInv, ~disturbed => Calm, OpenOrClose, ~disturbed' PROVE Calm'
<1>1. /\ calls' = Detached(calls) /\ ~disturbed
      /\ UNCHANGED <<claims, age, valid, access, user, timer>>
  BY DEF OpenOrClose, service, session
<1>2. DOMAIN calls' = DOMAIN calls /\ \A i \in DOMAIN calls : SameCall(calls'[i], calls[i])
  BY <1>1, DetachedProperties DEF IInv, CallsTyped
<1> DEFINE m == [i \in DOMAIN calls |-> i]
<1>3. /\ \A i \in DOMAIN calls' : m[i] \in DOMAIN calls /\ SameCall(calls'[i], calls[m[i]])
      /\ \A i, j \in DOMAIN calls' : i # j => m[i] # m[j]
      /\ \A i \in DOMAIN calls : \E j \in DOMAIN calls' : m[j] = i
  BY <1>2
<1>4. \A i \in DOMAIN calls : Refreshing(calls[i]) /\ calls[i].step = "asked" =>
          calls[i].token \in valid'
  BY <1>1 DEF Calm, SendsValid
<1> HIDE DEF m
<1>5. QED
  BY <1>1, <1>3, <1>4, CalmFewer

\* The pair in use grows older no faster than the interval runs.
LEMMA CalmTick ==
    ASSUME IInv, TimeTyped, Calm, Tick PROVE Calm'
<1>1. /\ UNCHANGED <<claims, valid, access, user, calls>>
      /\ age' = [p \in Pairs |-> IF age[p] < TTL THEN age[p] + 1 ELSE TTL]
      /\ access # 0 => timer' = timer + 1
  BY DEF Tick, session
<1>2. Fresh'
  <2> SUFFICES ASSUME access # 0, ~Renewing
               PROVE  age'[access] < timer' + (TTL - RefreshInterval)
    BY <1>1 DEF Fresh, Renewing
  <2>1. access \in Pairs /\ access \in 1..Len(age)
    BY DEF IInv, SessionTyped, Tokens, Pairs, TimeTyped
  <2>2. age[access] \in 0..TTL /\ timer \in Nat /\ TTL \in Nat /\ RefreshInterval \in Nat
    BY <2>1, AuthAssumption, ElementOfSeq DEF TimeTyped
  <2>3. age[access] < timer + (TTL - RefreshInterval)
    BY DEF Calm, Fresh
  <2>4. age'[access] = IF age[access] < TTL THEN age[access] + 1 ELSE TTL
    BY <1>1, <2>1
  <2>5. QED
    BY <1>1, <2>2, <2>3, <2>4
<1>3. QED
  BY <1>1, <1>2 DEF Calm, OneAtATime, SendsValid, NotDenied, AsksOfCurrent,
                    UserIsCurrent, Identity

LEMMA CalmStep == IInv /\ CalmInv /\ [Next]_vars => CalmInv'
<1> SUFFICES ASSUME IInv, CalmInv, [Next]_vars PROVE CalmInv'
  OBVIOUS
<1>1. TimeTyped' /\ IInv'
  BY TimeStep, NextIInv DEF CalmInv
<1>2. ASSUME ~disturbed'
      PROVE  Calm'
  <2>1. TimeTyped /\ (~disturbed => Calm)
    BY DEF CalmInv
  <2>2. ASSUME NEW k \in DOMAIN calls, Answer(k)
        PROVE  Calm'
    BY <1>2, <2>1, <2>2, CalmServe, CalmApply, CalmMe, CalmFails, CalmChallenged DEF Answer
  <2>3. CASE Renew \/ Submit \/ OpenOrClose
    BY <1>2, <2>1, <2>3, CalmRenew, CalmSubmit, CalmOpenOrClose
  <2>4. CASE Logout \/ Reload
    BY <1>1, <1>2, <2>4, CalmLogout, CalmReload
  <2>5. CASE Tick
    <3>1. ~disturbed
      BY <1>2, <2>5 DEF Tick
    <3>2. QED
      BY <2>1, <2>5, <3>1, CalmTick
  <2>6. CASE UNCHANGED vars
    BY <1>2, <2>1, <2>6
    DEF vars, service, session, Calm, OneAtATime, SendsValid, NotDenied, AsksOfCurrent,
        UserIsCurrent, Identity, Fresh, Renewing
  <2>7. QED
    BY <2>2, <2>3, <2>4, <2>5, <2>6 DEF Next
<1>3. QED
  BY <1>1, <1>2 DEF CalmInv

LEMMA InitCalm == Init => CalmInv
<1> SUFFICES ASSUME Init PROVE CalmInv
  OBVIOUS
<1>1. age = << >> /\ claims = << >> /\ timer = 0 /\ disturbed = FALSE
      /\ DOMAIN calls = {} /\ access = 0 /\ user = Anonymous
  BY DEF Init
<1>2. TimeTyped
  <2>1. << >> \in Seq(0..TTL) /\ 0 \in 0..RefreshInterval /\ FALSE \in BOOLEAN
    BY AuthAssumption, EmptySeq
  <2>2. QED
    BY <1>1, <2>1 DEF TimeTyped
<1>3. Calm
  BY <1>1 DEF Calm, OneAtATime, SendsValid, NotDenied, AsksOfCurrent, UserIsCurrent,
              Identity, Fresh
<1>4. QED
  BY <1>2, <1>3 DEF CalmInv

\* What is said of an undisturbed session holds in every reachable state.
THEOREM CalmInvariant == FairSpec => []CalmInv
BY InitCalm, CalmStep, Invariant, PTL DEF FairSpec

\* Type correctness: in particular no call of a form outlives the form's screen
\* without being taken from it.
THEOREM TypeCorrect == FairSpec => []TypeOK
<1>1. IInv /\ CalmInv => TypeOK
  <2> SUFFICES ASSUME IInv, CalmInv PROVE TypeOK
    OBVIOUS
  <2>1. \A c \in Calls : /\ c.op \in Ops /\ c.step \in Steps
                         /\ c.token \in Tokens /\ c.pair \in Tokens
                         /\ c.form => modal # "closed"
    <3> SUFFICES ASSUME NEW i \in DOMAIN calls
                 PROVE  /\ calls[i].op \in Ops /\ calls[i].step \in Steps
                        /\ calls[i].token \in Tokens /\ calls[i].pair \in Tokens
                        /\ calls[i].form => modal # "closed"
      BY DEF Calls, Range
    <3>1. calls[i] \in CallType
      BY CallsAre DEF IInv
    <3>2. QED
      BY <3>1 DEF IInv, CallsTyped, CallType
  <2>2. {ref, storage, access} \subseteq Tokens /\ {ready, disturbed, over} \subseteq BOOLEAN
    BY DEF IInv, SessionTyped, CalmInv, TimeTyped
  <2>3. QED
    BY <2>1, <2>2 DEF IInv, SessionTyped, CallsTyped, TypeOK, Tokens, Steps, CalmInv, TimeTyped
<1>2. QED
  BY <1>1, Invariant, CalmInvariant, PTL

\* Rotation alone never cuts a session: as long as calls do not overlap and the
\* service answers, no refresh sends a token that is no longer accepted.
THEOREM SessionIsNotCut == FairSpec => []SessionKept
<1>1. CalmInv => SessionKept
  BY DEF CalmInv, Calm, NotDenied, SessionKept, Calls, Range
<1>2. QED
  BY <1>1, CalmInvariant, PTL

\* At rest in an undisturbed session, what the page offers is what the API allows:
\* the user shown is the one of the pair in use, which is renewed before it expires.
THEOREM OffersAreAllowed == FairSpec => []RolesAgree
<1>1. IInv /\ CalmInv => RolesAgree
  <2> SUFFICES ASSUME IInv, CalmInv, calls = << >>, ~disturbed, NEW min \in Range(ROLES)
               PROVE  HasRole(user, min) <=> CanActivate(access, min) = 200
    BY DEF RolesAgree
  <2>1. DOMAIN calls = {} /\ TimeTyped /\ Calm
    BY DEF CalmInv
  <2>2. user = Identity(access) /\ Fresh /\ ~Renewing
    BY <2>1 DEF Calm, UserIsCurrent, Renewing
  <2>3. user = Authenticate(access)
    BY <2>1, <2>2, FreshIsValid
  <2>4. QED
    BY <2>3 DEF CanActivate
<1>2. QED
  BY <1>1, Invariant, CalmInvariant, PTL

\* Whoever logs out with nothing in flight stays out until the next login.
THEOREM LogoutIsFinal == FairSpec => []LogoutSticks
<1>1. IInv => LogoutSticks
  BY DEF IInv, OverInv, TokensAgree, LogoutSticks
<1>2. QED
  BY <1>1, Invariant, PTL
=============================================================================
