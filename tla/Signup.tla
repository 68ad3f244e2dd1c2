------------------------------- MODULE Signup -------------------------------
(***************************************************************************)
(* The sign-up service (Signup_server/app.py, models.py) and the page that *)
(* drives it (static/signup.js).  Browsers send requests without waiting   *)
(* for each other; the service runs them in threads, so the checks and the *)
(* commit of a registration are two steps.  The Flask session is a cookie: *)
(* a request carries the one the browser had when it was sent, and the     *)
(* answer, whenever it arrives, overwrites it.                             *)
(*                                                                         *)
(* A verification code is a fresh number (two random codes never collide   *)
(* here), its hash is the code itself, and a code that is older than       *)
(* EMAIL_CODE_TTL is a member of expired.  The cancel button, which only    *)
(* reloads the page, and the wording of the messages are left out.          *)
(***************************************************************************)
EXTENDS Naturals, FiniteSets

CONSTANTS
  Browsers, Ids, Nicks, Emails,
  Owned,       \* the mailboxes the user of a browser can read
  GoodNicks,   \* nicknames of a form that check-nickname accepts
  Passwords,   \* records of a length and the kinds of characters
  Slots,       \* bound: requests under way
  MaxCodes,    \* bound: codes sent
  None

ASSUME SignupAssumption ==
  /\ Owned \in [Browsers -> SUBSET Emails] /\ GoodNicks \subseteq Nicks
  /\ MaxCodes \in Nat /\ None \notin Emails

VARIABLES
  users,     \* the table of models.User
  cookie,    \* session["email_verify"] of every browser, or None
  form,      \* the fields of the page
  checked,   \* idCheckedOk, nickCheckedOk, emailVerifiedOk
  request,   \* the requests under way
  codes,     \* how many codes were drawn
  sent_to,   \* to which address
  expired    \* the codes whose time is over

vars == <<users, cookie, form, checked, request, codes, sent_to, expired>>

Cookies == [email : Emails, code : 1..MaxCodes, verified : {"yes", "no"}]
Fields == {"id", "nick", "email"}

\* Nobody has an account, and the pages have found their ids and nicknames free.
Init ==
  /\ users = {} /\ cookie = [b \in Browsers |-> None]
  /\ form \in [Browsers -> [id : Ids, nick : Nicks, email : Emails]]
  /\ checked = [b \in Browsers |-> {"id", "nick"}]
  /\ request = [s \in Slots |-> None]
  /\ codes = 0 /\ sent_to = [c \in 1..MaxCodes |-> None] /\ expired = {}

----------------------------------------------------------------------------
(* The page. *)

Values(field) == CASE field = "id" -> Ids [] field = "nick" -> Nicks [] field = "email" -> Emails

\* An input event of a field withdraws its check.
Edit(b) ==
  /\ \E field \in Fields : \E v \in Values(field) \ {form[b][field]} :
       /\ form' = [form EXCEPT ![b][field] = v]
       /\ checked' = [checked EXCEPT ![b] = @ \ {field}]
  /\ UNCHANGED <<users, cookie, request, codes, sent_to, expired>>

\* Typing another code withdraws the verification.
EditCode(b) ==
  /\ "email" \in checked[b] /\ checked' = [checked EXCEPT ![b] = @ \ {"email"}]
  /\ UNCHANGED <<users, cookie, form, request, codes, sent_to, expired>>

\* postJson: the fields and the cookie of this moment.
Post(b, s, kind, code) ==
  /\ request[s] = None
  /\ request' = [request EXCEPT ![s] =
       [kind |-> kind, by |-> b, id |-> form[b].id, nick |-> form[b].nick, email |-> form[b].email,
        code |-> code, st |-> cookie[b], stage |-> "sent", ok |-> "no", set |-> "no", jar |-> None]]
  /\ UNCHANGED <<users, cookie, form, checked, codes, sent_to, expired>>

\* 8 to 20 characters, two kinds of letters, digits and special characters;
\* pwRule of the page is the same.
validate_password(pw) == pw.len \in 8..20 /\ Cardinality(pw.kinds) >= 2

\* Bound: a check that stands is not asked for again.
PressCheckId(b, s) == "id" \notin checked[b] /\ Post(b, s, "check_id", 0)
PressCheckNick(b, s) == "nick" \notin checked[b] /\ Post(b, s, "check_nick", 0)
PressSendCode(b, s) == Post(b, s, "send_code", 0)
\* The user types a code from a mailbox of theirs.
PressVerify(b, s) == \E c \in 1..codes : sent_to[c] \in Owned[b] /\ Post(b, s, "verify", c)
PressRegister(b, s) ==
  /\ checked[b] = Fields /\ \E pw \in Passwords : validate_password(pw)
  /\ Post(b, s, "register", 0)

----------------------------------------------------------------------------
(* The service. *)

Answered(s, ok) == [request EXCEPT ![s].stage = "answered", ![s].ok = ok]
AnsweredWith(s, ok, jar) ==
  [request EXCEPT ![s].stage = "answered", ![s].ok = ok, ![s].set = "yes", ![s].jar = jar]

Arrives(s, kind) == request[s] # None /\ request[s].stage = "sent" /\ request[s].kind = kind

api_check_id(s) ==
  /\ Arrives(s, "check_id")
  /\ request' = Answered(s, IF \E u \in users : u.id = request[s].id THEN "no" ELSE "yes")
  /\ UNCHANGED <<users, cookie, form, checked, codes, sent_to, expired>>

api_check_nickname(s) ==
  /\ Arrives(s, "check_nick")
  /\ request' = Answered(s, IF request[s].nick \in GoodNicks /\ ~\E u \in users : u.nick = request[s].nick
                            THEN "yes" ELSE "no")
  /\ UNCHANGED <<users, cookie, form, checked, codes, sent_to, expired>>

\* The new code is in the cookie before the mail goes out, which may fail.
api_send_code(s) ==
  LET r == request[s]
  IN /\ Arrives(s, "send_code")
     /\ IF \E u \in users : u.email = r.email
        THEN request' = Answered(s, "no") /\ UNCHANGED <<codes, sent_to>>
        ELSE /\ codes < MaxCodes /\ codes' = codes + 1
             /\ \E mailed \in {"yes", "no"} :
                  /\ sent_to' = [sent_to EXCEPT ![codes + 1] = IF mailed = "yes" THEN r.email ELSE None]
                  /\ request' = AnsweredWith(s, mailed, [email |-> r.email, code |-> codes + 1, verified |-> "no"])
     /\ UNCHANGED <<users, cookie, form, checked, expired>>

api_verify_code(s) ==
  LET r == request[s]
  IN /\ Arrives(s, "verify")
     /\ request' = IF r.st # None /\ r.st.email = r.email /\ r.st.code \notin expired /\ r.st.code = r.code
                   THEN AnsweredWith(s, "yes", [r.st EXCEPT !.verified = "yes"])
                   ELSE Answered(s, "no")
     /\ UNCHANGED <<users, cookie, form, checked, codes, sent_to, expired>>

Taken(r) == \E u \in users : u.id = r.id \/ u.nick = r.nick \/ u.email = r.email

\* Mutant: neither the address of the cookie nor its age is looked at.
register_checksUnbound(s) ==
  LET r == request[s]
  IN /\ Arrives(s, "register")
     /\ request' = IF /\ r.st # None /\ r.st.verified = "yes" /\ ~Taken(r)
                   THEN [request EXCEPT ![s].stage = "checked"]
                   ELSE Answered(s, "no")
     /\ UNCHANGED <<users, cookie, form, checked, codes, sent_to, expired>>

\* api_register up to the three queries.  The nickname's form is not looked at.
register_checks(s) ==
  LET r == request[s]
  IN /\ Arrives(s, "register")
     /\ request' = IF /\ r.st # None /\ r.st.email = r.email /\ r.st.verified = "yes"
                      /\ r.st.code \notin expired /\ ~Taken(r)
                   THEN [request EXCEPT ![s].stage = "checked"]
                   ELSE Answered(s, "no")
     /\ UNCHANGED <<users, cookie, form, checked, codes, sent_to, expired>>

Row(r) == [id |-> r.id, nick |-> r.nick, email |-> r.email, by |-> r.by]

\* Mutant: the columns are not unique.
register_commitPlain(s) ==
  /\ request[s] # None /\ request[s].stage = "checked"
  /\ users' = users \cup {Row(request[s])} /\ request' = AnsweredWith(s, "yes", None)
  /\ UNCHANGED <<cookie, form, checked, codes, sent_to, expired>>

\* The commit: the unique columns refuse a row that another thread put in since
\* (an IntegrityError, status 500); otherwise the cookie is emptied.
register_commit(s) ==
  /\ request[s] # None /\ request[s].stage = "checked"
  /\ IF Taken(request[s])
     THEN request' = Answered(s, "no") /\ UNCHANGED users
     ELSE users' = users \cup {Row(request[s])} /\ request' = AnsweredWith(s, "yes", None)
  /\ UNCHANGED <<cookie, form, checked, codes, sent_to, expired>>

CodeExpires ==
  /\ \E c \in 1..codes : c \notin expired /\ expired' = expired \cup {c}
  /\ UNCHANGED <<users, cookie, form, checked, request, codes, sent_to>>

----------------------------------------------------------------------------
\* An answer arrives: the cookie, then the flags of the page; a registration
\* reloads the page.
FieldOf(kind) == CASE kind = "check_id" -> {"id"} [] kind = "check_nick" -> {"nick"}
                   [] kind \in {"send_code", "verify"} -> {"email"} [] OTHER -> {}

Receive(s) ==
  LET r == request[s]
  IN /\ r # None /\ r.stage = "answered"
     /\ cookie' = IF r.set = "yes" THEN [cookie EXCEPT ![r.by] = r.jar] ELSE cookie
     /\ checked' = [checked EXCEPT ![r.by] =
          IF r.kind = "register" THEN (IF r.ok = "yes" THEN {} ELSE @)
          ELSE IF r.ok = "yes" /\ r.kind # "send_code" THEN @ \cup FieldOf(r.kind) ELSE @ \ FieldOf(r.kind)]
     /\ request' = [request EXCEPT ![s] = None]
     /\ UNCHANGED <<users, form, codes, sent_to, expired>>

Serve(s) ==
  \/ api_check_id(s) \/ api_check_nickname(s) \/ api_send_code(s) \/ api_verify_code(s)
  \/ register_checks(s) \/ register_commit(s)

Press(b, s) ==
  PressCheckId(b, s) \/ PressCheckNick(b, s) \/ PressSendCode(b, s) \/ PressVerify(b, s) \/ PressRegister(b, s)

Next ==
  \/ \E b \in Browsers : Edit(b) \/ EditCode(b)
  \/ \E b \in Browsers, s \in Slots : Press(b, s)
  \/ \E s \in Slots : Serve(s) \/ Receive(s)
  \/ CodeExpires

Spec == Init /\ [][Next]_vars

----------------------------------------------------------------------------
(* Properties. *)

Rows == [id : Ids, nick : Nicks, email : Emails, by : Browsers]

\* The table, the cookies and the page hold values of their kinds.
TypeOK ==
  /\ users \subseteq Rows /\ cookie \in [Browsers -> Cookies \cup {None}]
  /\ form \in [Browsers -> [id : Ids, nick : Nicks, email : Emails]]
  /\ checked \in [Browsers -> SUBSET Fields]
  /\ codes \in 0..MaxCodes /\ expired \subseteq 1..MaxCodes

\* "중복 체크 (서버에서 최종 보장)": no two accounts share a login id, a nickname or an
\* address, although the checks and the commit of two registrations interleave.
Unique ==
  \A u, v \in users : u # v => u.id # v.id /\ u.nick # v.nick /\ u.email # v.email

\* Every account was registered by somebody who can read its mailbox, whatever
\* cookies late answers brought back and whatever the field said meanwhile.
OnlyOwners == \A u \in users : u.email \in Owned[u.by]
=============================================================================
