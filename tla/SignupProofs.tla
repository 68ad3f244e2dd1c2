---------------------------- MODULE SignupProofs ----------------------------
(***************************************************************************)
(* What the sign-up service guarantees for any number of browsers,         *)
(* requests under way, identifiers and codes.                              *)
(***************************************************************************)
EXTENDS Signup, TLAPS

Kinds == {"check_id", "check_nick", "send_code", "verify", "register"}

Requests ==
  [kind : Kinds, by : Browsers, id : Ids, nick : Nicks, email : Emails, code : Nat,
   st : Cookies \cup {None}, stage : {"sent", "checked", "answered"},
   ok : {"yes", "no"}, set : {"yes", "no"}, jar : Cookies \cup {None}]

\* The types of everything that decides about an account.
Typed ==
  /\ users \subseteq Rows /\ cookie \in [Browsers -> Cookies \cup {None}]
  /\ form \in [Browsers -> [id : Ids, nick : Nicks, email : Emails]]
  /\ request \in [Slots -> Requests \cup {None}]
  /\ codes \in 0..MaxCodes /\ sent_to \in [1..MaxCodes -> Emails \cup {None}]

\* A cookie of browser b is honest: its code went to its address or nowhere, and
\* it is verified only for a mailbox that b can read.
Honest(c, b) ==
  c # None => /\ c.code \in 1..codes /\ sent_to[c.code] \in {c.email, None}
              /\ c.verified = "yes" => c.email \in Owned[b]

HonestRequest(r) ==
  r # None => /\ Honest(r.st, r.by) /\ Honest(r.jar, r.by)
              /\ r.kind = "verify" => r.code \in 1..codes /\ sent_to[r.code] \in Owned[r.by]
              /\ r.stage = "checked" => r.email \in Owned[r.by]

\* The inductive invariant: every cookie that is in a browser, in a request or in
\* an answer under way is honest.
Guarded ==
  /\ Typed /\ OnlyOwners /\ Unique
  /\ \A b \in Browsers : Honest(cookie[b], b)
  /\ \A s \in Slots : HonestRequest(request[s])

\* Initially there are no cookies, no requests and no accounts.
LEMMA GuardedInit == Init => Guarded
  BY SignupAssumption DEF Init, Guarded, Typed, OnlyOwners, Unique, Honest, HonestRequest

\* A request that leaves the page carries an honest cookie.
LEMMA PostGuarded ==
  ASSUME Guarded, NEW b \in Browsers, NEW s \in Slots, NEW kind \in Kinds, NEW code \in Nat,
         kind = "verify" => code \in 1..codes /\ sent_to[code] \in Owned[b],
         Post(b, s, kind, code)
  PROVE  Guarded'
  <1> DEFINE r == [kind |-> kind, by |-> b, id |-> form[b].id, nick |-> form[b].nick, email |-> form[b].email,
                   code |-> code, st |-> cookie[b], stage |-> "sent", ok |-> "no", set |-> "no", jar |-> None]
  <1>1. r \in Requests
    BY DEF Guarded, Typed, Requests
  <1>2. HonestRequest(r)
    BY DEF Guarded, Honest, HonestRequest
  <1>3. request' = [request EXCEPT ![s] = r]
    BY DEF Post
  <1> HIDE DEF r
  <1>4. Typed'
    BY <1>1, <1>3 DEF Guarded, Typed, Post
  <1>5. \A t \in Slots : HonestRequest(request[t])'
    BY <1>2, <1>3 DEF Guarded, Typed, Post, Honest, HonestRequest
  <1> QED
    BY <1>4, <1>5 DEF Guarded, Post, OnlyOwners, Unique, Honest

\* An answer that sets an honest cookie, or none, leaves everything honest.
LEMMA AnswerGuarded ==
  ASSUME Guarded, NEW s \in Slots, request[s] # None, NEW r \in Requests,
         HonestRequest(r), request' = [request EXCEPT ![s] = r],
         UNCHANGED <<users, cookie, form, codes, sent_to>>
  PROVE  Guarded'
  <1>1. Typed'
    BY DEF Guarded, Typed
  <1>2. \A t \in Slots : HonestRequest(request[t])'
    BY DEF Guarded, Typed, Honest, HonestRequest
  <1> QED
    BY <1>1, <1>2 DEF Guarded, OnlyOwners, Unique, Honest

\* Every step of the page, of the service and of time keeps the invariant.
LEMMA GuardedStep ==
  ASSUME Guarded, [Next]_vars
  PROVE  Guarded'
  <1>1. ASSUME NEW b \in Browsers, Edit(b)
        PROVE  Guarded'
    <2>1. PICK field \in Fields : \E v \in Values(field) : form' = [form EXCEPT ![b][field] = v]
      BY <1>1 DEF Edit
    <2>2. form' \in [Browsers -> [id : Ids, nick : Nicks, email : Emails]]
      <3>1. CASE field = "id"
        BY <2>1, <3>1 DEF Guarded, Typed, Values
      <3>2. CASE field = "nick"
        BY <2>1, <3>2 DEF Guarded, Typed, Values
      <3>3. CASE field = "email"
        BY <2>1, <3>3 DEF Guarded, Typed, Values
      <3> QED
        BY <3>1, <3>2, <3>3 DEF Fields
    <2>3. Typed'
      BY <1>1, <2>2 DEF Guarded, Typed, Edit
    <2> QED
      BY <1>1, <2>3 DEF Guarded, Edit, OnlyOwners, Unique, Honest, HonestRequest
  <1>2. ASSUME NEW b \in Browsers, NEW s \in Slots, Press(b, s)
        PROVE  Guarded'
    <2>1. CASE PressCheckId(b, s)
      BY <2>1, PostGuarded DEF PressCheckId, Kinds
    <2>2. CASE PressCheckNick(b, s)
      BY <2>2, PostGuarded DEF PressCheckNick, Kinds
    <2>3. CASE PressSendCode(b, s)
      BY <2>3, PostGuarded DEF PressSendCode, Kinds
    <2>4. CASE PressVerify(b, s)
      <3>1. PICK c \in 1..codes : sent_to[c] \in Owned[b] /\ Post(b, s, "verify", c)
        BY <2>4 DEF PressVerify
      <3>2. c \in Nat
        BY DEF Guarded, Typed
      <3> QED
        BY <3>1, <3>2, PostGuarded DEF Kinds
    <2>5. CASE PressRegister(b, s)
      BY <2>5, PostGuarded DEF PressRegister, Kinds
    <2> QED
      BY <1>2, <2>1, <2>2, <2>3, <2>4, <2>5 DEF Press
  <1>3. ASSUME NEW s \in Slots, Serve(s)
        PROVE  Guarded'
    <2> DEFINE r == request[s]
    <2>1. r \in Requests /\ r # None /\ HonestRequest(r)
      BY <1>3 DEF Guarded, Typed, Serve, Arrives, api_check_id, api_check_nickname, api_send_code,
         api_verify_code, register_checks, register_commit
    <2>2. ASSUME NEW ok \in {"yes", "no"}, request' = Answered(s, ok),
                 UNCHANGED <<users, cookie, form, codes, sent_to>>
          PROVE  Guarded'
      <3> DEFINE q == [r EXCEPT !.stage = "answered", !.ok = ok]
      <3>1. q \in Requests /\ HonestRequest(q)
        BY <2>1 DEF Requests, HonestRequest
      <3>2. request' = [request EXCEPT ![s] = q]
        BY <2>2 DEF Answered, Guarded, Typed
      <3> QED
        BY <2>1, <2>2, <3>1, <3>2, AnswerGuarded
    <2>3. CASE api_check_id(s)
      BY <2>2, <2>3 DEF api_check_id
    <2>4. CASE api_check_nickname(s)
      BY <2>2, <2>4 DEF api_check_nickname
    <2>5. CASE api_send_code(s)
      <3>1. CASE \E u \in users : u.email = r.email
        BY <2>2, <2>5, <3>1 DEF api_send_code
      <3>2. CASE ~\E u \in users : u.email = r.email
        <4>1. codes < MaxCodes /\ codes' = codes + 1 /\ UNCHANGED <<users, cookie, form>>
          BY <2>5, <3>2 DEF api_send_code
        <4>2. PICK p \in Requests, n \in Nat :
                p = r /\ n = codes + 1 /\ n \in 1..MaxCodes /\ p # None /\ HonestRequest(p)
          BY <2>1, <4>1, SignupAssumption DEF Guarded, Typed
        <4> DEFINE jar == [email |-> p.email, code |-> n, verified |-> "no"]
        <4>3. PICK mailed \in {"yes", "no"} :
                /\ sent_to' = [sent_to EXCEPT ![n] = IF mailed = "yes" THEN p.email ELSE None]
                /\ request' = AnsweredWith(s, mailed, jar)
          BY <2>5, <3>2, <4>2 DEF api_send_code
        <4> DEFINE q == [p EXCEPT !.stage = "answered", !.ok = mailed, !.set = "yes", !.jar = jar]
        <4>4. jar \in Cookies
          BY <4>2 DEF Cookies, Requests
        <4>5. q \in Requests
          BY <4>4 DEF Requests
        <4>6. request' = [request EXCEPT ![s] = q]
          BY <4>2, <4>3 DEF AnsweredWith, Guarded, Typed
        <4>7. sent_to' \in [1..MaxCodes -> Emails \cup {None}]
          BY <4>3 DEF Guarded, Typed, Requests
        <4>8. Typed'
          <5> HIDE DEF q
          <5> QED
            BY <4>1, <4>2, <4>5, <4>6, <4>7, SignupAssumption DEF Guarded, Typed
        <4>9. ASSUME NEW c \in Cookies \cup {None}, NEW b \in Browsers, Honest(c, b)
              PROVE  Honest(c, b)'
          BY <4>1, <4>2, <4>3, <4>9 DEF Guarded, Typed, Honest
        <4>10. Honest(jar, p.by)'
          BY <4>1, <4>2, <4>3 DEF Guarded, Typed, Honest, Requests
        <4>11. ASSUME NEW t \in Requests \cup {None}, HonestRequest(t)
               PROVE  HonestRequest(t)'
          <5>1. CASE t = None
            BY <5>1 DEF HonestRequest
          <5>2. CASE t # None
            <6>1. t.st \in Cookies \cup {None} /\ t.jar \in Cookies \cup {None} /\ t.by \in Browsers
              BY <5>2, <4>11 DEF Requests
            <6>2. Honest(t.st, t.by)' /\ Honest(t.jar, t.by)'
              BY <4>9, <4>11, <5>2, <6>1 DEF HonestRequest
            <6>3. t.kind = "verify" => (t.code \in 1..codes /\ sent_to[t.code] \in Owned[t.by])'
              BY <4>1, <4>2, <4>3, <4>11, <5>2 DEF HonestRequest, Guarded, Typed
            <6> QED
              BY <4>11, <5>2, <6>2, <6>3 DEF HonestRequest
          <5> QED
            BY <5>1, <5>2
        <4>12. HonestRequest(q)'
          <5>1. HonestRequest(p)'
            BY <4>2, <4>11
          <5>2. q.st = p.st /\ q.by = p.by /\ q.jar = jar /\ q.kind = p.kind /\ q.code = p.code /\ q.stage = "answered"
            BY DEF Requests
          <5> HIDE DEF q, jar
          <5> QED
            BY <4>2, <4>10, <5>1, <5>2 DEF HonestRequest
        <4>13. \A t \in Slots : HonestRequest(request[t])'
          <5> SUFFICES ASSUME NEW t \in Slots PROVE HonestRequest(request[t])'
            OBVIOUS
          <5>1. CASE t = s
            <6>1. request'[t] = q
              BY <4>6, <5>1 DEF Guarded, Typed
            <6> HIDE DEF q
            <6> QED
              BY <4>12, <6>1 DEF HonestRequest, Honest
          <5>2. CASE t # s
            <6>1. request'[t] = request[t] /\ request[t] \in Requests \cup {None} /\ HonestRequest(request[t])
              BY <4>6, <5>2 DEF Guarded, Typed
            <6> QED
              BY <4>11, <6>1 DEF HonestRequest, Honest
          <5> QED
            BY <5>1, <5>2
        <4>14. \A b \in Browsers : Honest(cookie[b], b)'
          BY <4>1, <4>9 DEF Guarded, Typed, Honest
        <4> QED
          BY <4>1, <4>8, <4>13, <4>14 DEF Guarded, OnlyOwners, Unique
      <3> QED
        BY <3>1, <3>2
    <2>6. CASE api_verify_code(s)
      <3>1. CASE r.st # None /\ r.st.email = r.email /\ r.st.code \notin expired /\ r.st.code = r.code
        <4> DEFINE jar == [r.st EXCEPT !.verified = "yes"]
        <4> DEFINE q == [r EXCEPT !.stage = "answered", !.ok = "yes", !.set = "yes", !.jar = jar]
        <4>1. request' = [request EXCEPT ![s] = q]
          BY <2>6, <3>1 DEF api_verify_code, AnsweredWith, Guarded, Typed
        <4>2. r.st \in Cookies /\ jar \in Cookies
          BY <2>1, <3>1 DEF Requests, Cookies
        <4>3. q \in Requests
          BY <2>1, <4>2 DEF Requests
        <4>4. r.kind = "verify" /\ Honest(r.st, r.by)
          BY <2>1, <2>6 DEF api_verify_code, Arrives, HonestRequest
        <4>5. r.st.email \in Owned[r.by]
          BY <2>1, <3>1, <4>4, SignupAssumption DEF HonestRequest, Honest, Requests
        <4>6. Honest(jar, r.by)
          BY <3>1, <4>2, <4>4, <4>5 DEF Honest, Cookies
        <4>7. HonestRequest(q)
          <5>1. q.st = r.st /\ q.by = r.by /\ q.jar = jar /\ q.kind = r.kind /\ q.code = r.code /\ q.stage = "answered"
            BY <2>1 DEF Requests
          <5> HIDE DEF q, jar
          <5> QED
            BY <2>1, <4>6, <5>1 DEF HonestRequest
        <4> HIDE DEF q
        <4> QED
          BY <2>1, <2>6, <4>1, <4>3, <4>7, AnswerGuarded DEF api_verify_code
      <3>2. CASE ~(r.st # None /\ r.st.email = r.email /\ r.st.code \notin expired /\ r.st.code = r.code)
        BY <2>2, <2>6, <3>2 DEF api_verify_code
      <3> QED
        BY <3>1, <3>2
    <2>7. CASE register_checks(s)
      <3> DEFINE ok == /\ r.st # None /\ r.st.email = r.email /\ r.st.verified = "yes"
                       /\ r.st.code \notin expired /\ ~Taken(r)
      <3>1. CASE ok
        <4> DEFINE q == [r EXCEPT !.stage = "checked"]
        <4>1. request' = [request EXCEPT ![s] = q]
          BY <2>7, <3>1 DEF register_checks, Guarded, Typed
        <4>2. q \in Requests
          BY <2>1 DEF Requests
        <4>3. HonestRequest(q)
          BY <2>1, <3>1 DEF Requests, HonestRequest, Honest
        <4> QED
          BY <2>1, <2>7, <4>1, <4>2, <4>3, AnswerGuarded DEF register_checks
      <3>2. CASE ~ok
        BY <2>2, <2>7, <3>2 DEF register_checks
      <3> QED
        BY <3>1, <3>2
    <2>8. CASE register_commit(s)
      <3>1. CASE Taken(r)
        BY <2>2, <2>8, <3>1 DEF register_commit
      <3>2. CASE ~Taken(r)
        <4> DEFINE q == [r EXCEPT !.stage = "answered", !.ok = "yes", !.set = "yes", !.jar = None]
        <4>1. users' = users \cup {Row(r)} /\ request' = [request EXCEPT ![s] = q] /\ UNCHANGED <<cookie, form, codes, sent_to>>
          BY <2>8, <3>2 DEF register_commit, AnsweredWith, Guarded, Typed
        <4>2. q \in Requests /\ HonestRequest(q)
          BY <2>1 DEF Requests, HonestRequest, Honest
        <4>3. Row(r) \in Rows
          BY <2>1 DEF Row, Rows, Requests
        <4> HIDE DEF q
        <4>4. Typed'
          BY <4>1, <4>2, <4>3 DEF Guarded, Typed
        <4>5. OnlyOwners'
          <5>1. r.email \in Owned[r.by]
            BY <2>1, <2>8 DEF register_commit, HonestRequest
          <5> QED
            BY <4>1, <5>1 DEF Guarded, OnlyOwners, Row
        <4>6. Unique'
          BY <3>2, <4>1 DEF Guarded, Unique, Taken, Row
        <4>7. \A t \in Slots : HonestRequest(request[t])'
          BY <4>1, <4>2 DEF Guarded, Typed, Honest, HonestRequest
        <4> QED
          BY <4>1, <4>4, <4>5, <4>6, <4>7 DEF Guarded, Honest
      <3> QED
        BY <3>1, <3>2
    <2> QED
      BY <1>3, <2>3, <2>4, <2>5, <2>6, <2>7, <2>8 DEF Serve
  <1>4. ASSUME NEW s \in Slots, Receive(s)
        PROVE  Guarded'
    <2> DEFINE r == request[s]
    <2>1. r \in Requests /\ r # None /\ HonestRequest(r)
      BY <1>4 DEF Guarded, Typed, Receive
    <2>2. request' = [request EXCEPT ![s] = None] /\ UNCHANGED <<users, form, codes, sent_to>>
      BY <1>4 DEF Receive
    <2>3. cookie' = cookie \/ cookie' = [cookie EXCEPT ![r.by] = r.jar]
      BY <1>4 DEF Receive
    <2>4. r.by \in Browsers /\ r.jar \in Cookies \cup {None} /\ Honest(r.jar, r.by)
      BY <2>1 DEF Requests, HonestRequest
    <2> HIDE DEF r
    <2>5. Typed'
      BY <2>2, <2>3, <2>4 DEF Guarded, Typed
    <2>6. \A b \in Browsers : Honest(cookie[b], b)'
      BY <2>2, <2>3, <2>4 DEF Guarded, Typed, Honest
    <2>7. \A t \in Slots : HonestRequest(request[t])'
      BY <2>2 DEF Guarded, Typed, Honest, HonestRequest
    <2> QED
      BY <2>2, <2>5, <2>6, <2>7 DEF Guarded, OnlyOwners, Unique
  <1>5. CASE CodeExpires
    BY <1>5 DEF CodeExpires, Guarded, Typed, OnlyOwners, Unique, Honest, HonestRequest
  <1>6. CASE UNCHANGED vars
    BY <1>6 DEF vars, Guarded, Typed, OnlyOwners, Unique, Honest, HonestRequest
  <1>7. ASSUME NEW b \in Browsers, EditCode(b)
        PROVE  Guarded'
    BY <1>7 DEF EditCode, Guarded, Typed, OnlyOwners, Unique, Honest, HonestRequest
  <1> QED
    BY <1>1, <1>2, <1>3, <1>4, <1>5, <1>6, <1>7 DEF Next

\* Every account belongs to somebody who can read its mailbox, in every behaviour
\* of the page and the service, however answers and edits interleave.
THEOREM AccountsHaveOwners == Spec => []OnlyOwners
  <1>1. Guarded => OnlyOwners
    BY DEF Guarded
  <1> QED
    BY <1>1, GuardedInit, GuardedStep, PTL DEF Spec

\* No two accounts share a login id, a nickname or an address.
THEOREM AccountsAreUnique == Spec => []Unique
  <1>1. Guarded => Unique
    BY DEF Guarded
  <1> QED
    BY <1>1, GuardedInit, GuardedStep, PTL DEF Spec

\* Every variable keeps its type: flags are withdrawn and set only for fields of
\* the page, and only codes that were drawn expire (signup.js, api_send_code).
THEOREM SignupTypes == Spec => []TypeOK
  <1> DEFINE Flags == checked \in [Browsers -> SUBSET Fields] /\ expired \subseteq 1..MaxCodes
  <1>1. Init => Flags
    BY DEF Init, Fields
  <1>2. Guarded /\ Flags /\ [Next]_vars => Flags'
    <2> SUFFICES ASSUME Guarded, Flags, [Next]_vars
                 PROVE  Flags'
      OBVIOUS
    <2>1. ASSUME NEW b \in Browsers, Edit(b) \/ EditCode(b)
          PROVE  Flags'
      BY <2>1 DEF Edit, EditCode, Fields
    <2>2. ASSUME NEW b \in Browsers, NEW s \in Slots, Press(b, s)
          PROVE  Flags'
      BY <2>2 DEF Press, PressCheckId, PressCheckNick, PressSendCode, PressVerify, PressRegister, Post
    <2>3. ASSUME NEW s \in Slots, Serve(s)
          PROVE  Flags'
      BY <2>3 DEF Serve, api_check_id, api_check_nickname, api_send_code, api_verify_code,
                  register_checks, register_commit
    <2>4. ASSUME NEW s \in Slots, Receive(s)
          PROVE  Flags'
      <3>1. FieldOf(request[s].kind) \subseteq Fields
        BY <2>4 DEF FieldOf, Fields, Receive, Guarded, Typed, Requests, Kinds
      <3> QED
        BY <2>4, <3>1 DEF Receive
    <2>5. CASE CodeExpires
      <3>1. codes \in 0..MaxCodes /\ MaxCodes \in Nat
        BY SignupAssumption DEF Guarded, Typed
      <3>2. 1..codes \subseteq 1..MaxCodes
        BY <3>1
      <3> QED
        BY <2>5, <3>2 DEF CodeExpires
    <2>6. CASE UNCHANGED vars
      BY <2>6 DEF vars
    <2> QED
      BY <2>1, <2>2, <2>3, <2>4, <2>5, <2>6 DEF Next
  <1>3. Guarded /\ Flags => TypeOK
    BY DEF Guarded, Typed, TypeOK
  <1> QED
    BY <1>1, <1>2, <1>3, GuardedInit, GuardedStep, PTL DEF Spec
=============================================================================
