---------------------------- MODULE AccountLinks ----------------------------
(***************************************************************************)
(* The links that let a member in without a password: the sign-in link     *)
(* (login_magic_tokens), the activation link of a sign-up                  *)
(* (activation_tokens) and the link to a new password                      *)
(* (password_reset_tokens), with the accounts of one e-mail address.       *)
(* internal/handlers/signup.go, login_magic_link.go, password_reset.go;    *)
(* pkg/identity.                                                           *)
(*                                                                         *)
(* All accounts are of one address.  A sign-up stores it as it was typed,  *)
(* every other way in lower case, and users.email is unique as spelt: two  *)
(* accounts of the address may live side by side.  A click is one request  *)
(* that holds what it read of its link while others run.                   *)
(***************************************************************************)
EXTENDS Naturals

CONSTANTS
  Accounts,     \* ids of accounts, never used twice
  Links,        \* tokens, never drawn twice
  Clicks,       \* requests on links that may be handled at once
  NoUser,       \* user_id NULL
  NoLink        \* a click that is not being handled

ASSUME ConstantsAssumption == NoUser \notin Accounts /\ NoLink \notin Links

Spellings == {"lower", "mixed"}
Kinds == {"magic", "activation", "reset"}
\* A link deleted with its account is gone; used wins over expired.
LinkStates == {"absent", "live", "used", "expired", "gone"}
Stages == {"idle", "read", "taken", "refused"}

VARIABLES
  account,      \* the account of the id: absent, live or deleted
  spelling,     \* how users.email spells the address
  kind,         \* the table the link is in
  state,        \* its row
  owner,        \* user_id
  on,           \* the link a click is on
  read,         \* the user_id it read
  stage,        \* how far its handler is
  \* What happened, which the code keeps nowhere:
  issuedFor,    \* the account the link was issued for
  served,       \* how often the link let somebody in: no, once or more
  servedFor,    \* the account of the last time
  contested,    \* links two clicks read unused, or whose mark failed
  burned        \* sign-in links used up by a request that failed afterwards

users == <<account, spelling>>
links == <<kind, state, owner, issuedFor>>
clicks == <<on, read, stage>>
history == <<served, servedFor, contested, burned>>
linksVars == <<users, links, clicks, history>>

LinksTypeOK ==
  /\ account \in [Accounts -> {"absent", "live", "deleted"}]
  /\ spelling \in [Accounts -> Spellings]
  /\ kind \in [Links -> Kinds]
  /\ state \in [Links -> LinkStates]
  /\ owner \in [Links -> Accounts \cup {NoUser}]
  /\ issuedFor \in [Links -> Accounts \cup {NoUser}]
  /\ on \in [Clicks -> Links \cup {NoLink}]
  /\ read \in [Clicks -> Accounts \cup {NoUser}]
  /\ stage \in [Clicks -> Stages]
  /\ served \in [Links -> {"no", "once", "more"}]
  /\ servedFor \in [Links -> Accounts \cup {NoUser}]
  /\ contested \in SUBSET Links
  /\ burned \in SUBSET Links

LinksInit ==
  /\ account = [u \in Accounts |-> "absent"]
  /\ spelling = [u \in Accounts |-> "lower"]
  /\ kind = [l \in Links |-> "magic"]
  /\ state = [l \in Links |-> "absent"]
  /\ owner = [l \in Links |-> NoUser]
  /\ issuedFor = [l \in Links |-> NoUser]
  /\ on = [k \in Clicks |-> NoLink]
  /\ read = [k \in Clicks |-> NoUser]
  /\ stage = [k \in Clicks |-> "idle"]
  /\ served = [l \in Links |-> "no"]
  /\ servedFor = [l \in Links |-> NoUser]
  /\ contested = {}
  /\ burned = {}

-----------------------------------------------------------------------------
(***************************************************************************)
(* Accounts and the issue of links.                                        *)
(***************************************************************************)

\* users.email UNIQUE: no live account spells the address like s.
Free(s) == \A u \in Accounts : account[u] = "live" => spelling[u] # s

NewUser(u, s) ==
  /\ account[u] = "absent"
  /\ Free(s)
  /\ account' = [account EXCEPT ![u] = "live"]
  /\ spelling' = [spelling EXCEPT ![u] = s]

IssueLink(l, k, u) ==
  /\ state[l] = "absent"
  /\ kind' = [kind EXCEPT ![l] = k]
  /\ state' = [state EXCEPT ![l] = "live"]
  /\ owner' = [owner EXCEPT ![l] = u]
  /\ issuedFor' = [issuedFor EXCEPT ![l] = u]

\* A sign-up: the account, spelt as typed, and its activation link in one
\* transaction.  When the spelling is taken the existing link is sent again.
CreateMember(u, s, l) ==
  /\ NewUser(u, s)
  /\ IssueLink(l, "activation", u)
  /\ UNCHANGED <<clicks, history>>

\* Register, and the first half of an onboarding.
CreateAccount(u) ==
  /\ NewUser(u, "lower")
  /\ UNCHANGED <<links, clicks, history>>

\* A sign-in link, or the one of an onboarding, for an account of the address
\* however spelt; for no account when the look-up finds none or fails.  The
\* foreign key refuses an account deleted since.
IssueMagicToken(l, u) ==
  /\ u # NoUser => account[u] = "live"
  /\ IssueLink(l, "magic", u)
  /\ UNCHANGED <<users, clicks, history>>

\* A link to a new password: the look-up is by the lower-case spelling only.
ForgotSubmit(l, u) ==
  /\ account[u] = "live"
  /\ spelling[u] = "lower"
  /\ IssueLink(l, "reset", u)
  /\ UNCHANGED <<users, clicks, history>>

Expire(l) ==
  /\ state[l] = "live"
  /\ state' = [state EXCEPT ![l] = "expired"]
  /\ UNCHANGED <<users, kind, owner, issuedFor, clicks, history>>

\* The member deletes the account: the sign-in links lose their owner, the
\* other links go with it (ON DELETE CASCADE).
DeleteUser(u) ==
  /\ account[u] = "live"
  /\ account' = [account EXCEPT ![u] = "deleted"]
  /\ owner' = [l \in Links |->
       IF kind[l] = "magic" /\ owner[l] = u THEN NoUser ELSE owner[l]]
  /\ state' = [l \in Links |->
       IF kind[l] # "magic" /\ owner[l] = u THEN "gone" ELSE state[l]]
  /\ UNCHANGED <<spelling, kind, issuedFor, clicks, history>>

-----------------------------------------------------------------------------
(***************************************************************************)
(* A click: the handlers of the three kinds of links.                      *)
(***************************************************************************)

\* Mutant: the account is looked for anew, by the address of the link.
ReadAddress(k, l) ==
  /\ stage[k] = "idle"
  /\ state[l] = "live"
  /\ on' = [on EXCEPT ![k] = l]
  /\ read' = [read EXCEPT ![k] = NoUser]
  /\ stage' = [stage EXCEPT ![k] = "read"]
  /\ contested' = IF \E j \in Clicks : on[j] = l THEN contested \cup {l} ELSE contested
  /\ UNCHANGED <<users, links, served, servedFor, burned>>

\* The row as its SELECT saw it: unused and in time.
Read(k, l) ==
  /\ stage[k] = "idle"
  /\ state[l] = "live"
  /\ on' = [on EXCEPT ![k] = l]
  /\ read' = [read EXCEPT ![k] = owner[l]]
  /\ stage' = [stage EXCEPT ![k] = "read"]
  /\ contested' = IF \E j \in Clicks : on[j] = l THEN contested \cup {l} ELSE contested
  /\ UNCHANGED <<users, links, served, servedFor, burned>>

Done(k) ==
  /\ on' = [on EXCEPT ![k] = NoLink]
  /\ read' = [read EXCEPT ![k] = NoUser]
  /\ stage' = [stage EXCEPT ![k] = "idle"]

\* used_at is set; a row that is gone stays so.
Mark(l) ==
  state' = [state EXCEPT ![l] = IF @ = "gone" THEN "gone" ELSE "used"]

\* The link lets somebody in: a session, or a new password, of account u.
Serve(l, u) ==
  /\ served' = [served EXCEPT ![l] = IF @ = "no" THEN "once" ELSE "more"]
  /\ servedFor' = [servedFor EXCEPT ![l] = u]

\* Mutant: the UPDATE without its condition.
ConsumableTwice(l) == TRUE

\* The sign-in link is used up before anything else is done with it, by an
\* UPDATE that must find it unused.
Consumable(l) == state[l] # "used"

Consume(k) ==
  /\ stage[k] = "read"
  /\ kind[on[k]] = "magic"
  /\ Consumable(on[k])
  /\ Mark(on[k])
  /\ stage' = [stage EXCEPT ![k] = "taken"]
  /\ UNCHANGED <<users, kind, owner, issuedFor, on, read, history>>

\* The other click was first: the link is refused, as it is in Interrupt.
TooLate(k) ==
  /\ stage[k] = "read"
  /\ kind[on[k]] = "magic"
  /\ ~Consumable(on[k])
  /\ Done(k)
  /\ UNCHANGED <<users, links, history>>

\* The session of the account read, whether or not it lives on.
OpenRead(k) ==
  /\ stage[k] = "taken"
  /\ read[k] # NoUser
  /\ Serve(on[k], read[k])
  /\ Done(k)
  /\ UNCHANGED <<users, links, contested, burned>>

\* A link without an account: its first use creates one.
OpenNew(k, u) ==
  /\ stage[k] = "taken"
  /\ read[k] = NoUser
  /\ NewUser(u, "lower")
  /\ Serve(on[k], u)
  /\ Done(k)
  /\ UNCHANGED <<links, contested, burned>>

\* Mutant: ErrEmailTaken answered like any other error.
EmailRefused(k) ==
  /\ stage[k] = "taken"
  /\ read[k] = NoUser
  /\ ~Free("lower")
  /\ Done(k)
  /\ UNCHANGED <<users, links, history>>

\* ErrEmailTaken: the account was created since the link was issued.
EmailTaken(k) ==
  /\ stage[k] = "taken"
  /\ read[k] = NoUser
  /\ ~Free("lower")
  /\ stage' = [stage EXCEPT ![k] = "refused"]
  /\ UNCHANGED <<users, links, on, read, history>>

\* The session of the account that took the address ...
OpenFound(k, u) ==
  /\ stage[k] = "refused"
  /\ account[u] = "live"
  /\ spelling[u] = "lower"
  /\ Serve(on[k], u)
  /\ Done(k)
  /\ UNCHANGED <<users, links, contested, burned>>

\* ... unless it is deleted again: an error page.
NoneFound(k) ==
  /\ stage[k] = "refused"
  /\ Free("lower")
  /\ burned' = burned \cup {on[k]}
  /\ Done(k)
  /\ UNCHANGED <<users, links, served, servedFor, contested>>

\* The activation link is marked without a look at the effect, and the session
\* opened even when the UPDATE failed.
Activate(k) ==
  /\ stage[k] = "read"
  /\ kind[on[k]] = "activation"
  /\ Mark(on[k])
  /\ Serve(on[k], read[k])
  /\ Done(k)
  /\ UNCHANGED <<users, kind, owner, issuedFor, contested, burned>>

ActivateUnmarked(k) ==
  /\ stage[k] = "read"
  /\ kind[on[k]] = "activation"
  /\ contested' = contested \cup {on[k]}
  /\ Serve(on[k], read[k])
  /\ Done(k)
  /\ UNCHANGED <<users, links, burned>>

\* The new password and the mark of its link, in one transaction that looks at
\* neither effect.
ResetPassword(k) ==
  /\ stage[k] = "read"
  /\ kind[on[k]] = "reset"
  /\ Mark(on[k])
  /\ Serve(on[k], read[k])
  /\ Done(k)
  /\ UNCHANGED <<users, kind, owner, issuedFor, contested, burned>>

\* A statement fails, the client leaves or the process dies: what was written
\* stays, and a sign-in link already used up is lost.
Interrupt(k) ==
  /\ stage[k] # "idle"
  /\ burned' = IF stage[k] = "read" THEN burned ELSE burned \cup {on[k]}
  /\ Done(k)
  /\ UNCHANGED <<users, links, served, servedFor, contested>>

-----------------------------------------------------------------------------
ClickStep(k) ==
  \/ Consume(k)
  \/ TooLate(k)
  \/ OpenRead(k)
  \/ EmailTaken(k)
  \/ NoneFound(k)
  \/ Activate(k)
  \/ ActivateUnmarked(k)
  \/ ResetPassword(k)
  \/ Interrupt(k)

LinksNext ==
  \/ \E u \in Accounts, s \in Spellings, l \in Links : CreateMember(u, s, l)
  \/ \E u \in Accounts : CreateAccount(u) \/ DeleteUser(u)
  \/ \E l \in Links, u \in Accounts \cup {NoUser} : IssueMagicToken(l, u)
  \/ \E l \in Links, u \in Accounts : ForgotSubmit(l, u)
  \/ \E l \in Links : Expire(l)
  \/ \E k \in Clicks, l \in Links : Read(k, l)
  \/ \E k \in Clicks, u \in Accounts : OpenNew(k, u) \/ OpenFound(k, u)
  \/ \E k \in Clicks : ClickStep(k)

LinksSpec == LinksInit /\ [][LinksNext]_linksVars

-----------------------------------------------------------------------------
(***************************************************************************)
(* What is promised.                                                       *)
(***************************************************************************)

\* A sign-in link lets nobody in twice, whatever runs at once (the UPDATE with
\* used_at IS NULL and its RowsAffected, login_magic_link.go).  The other
\* links keep to it only when no two clicks read them unused and no mark
\* failed: handleActivate and handleResetSubmit read, then write.
ServesOnce ==
  \A l \in Links : served[l] = "more" => kind[l] # "magic" /\ l \in contested

\* A sign-in link that is used up has let somebody in, is being handled, or was
\* lost by a request that failed: a member is never refused because an account
\* of the address appeared while the link was under way (ErrEmailTaken).
UsedUpHasServed ==
  \A l \in Links :
    kind[l] = "magic" /\ state[l] = "used"
    => served[l] # "no" \/ l \in burned \/ \E k \in Clicks : on[k] = l

\* A link issued for an account lets in to that account and to no twin of it
\* spelt otherwise, unless it was deleted since.
ServesItsAccount ==
  \A l \in Links :
    served[l] # "no" /\ issuedFor[l] # NoUser /\ servedFor[l] # issuedFor[l]
    => account[issuedFor[l]] = "deleted"

\* What is left of a deleted account names it no more (deleteUserRGPD): a link
\* that can still be clicked is of a live account or of none.
LinksNameTheLiving ==
  \A l \in Links :
    state[l] \notin {"absent", "gone"} /\ owner[l] # NoUser
    => account[owner[l]] = "live"
=============================================================================
