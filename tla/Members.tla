------------------------------ MODULE Members ------------------------------
(***************************************************************************)
(* Members: member-service's join and update, and the pages of the web     *)
(* client that lead to them (components/Join.js, Login.js, Privacy.js) in   *)
(* one tab.  Joining looks for the id and saves the document in two steps; *)
(* the id is the key of the document, so that the second of two members    *)
(* who join as the same overwrites the first, and both are given points.   *)
(*                                                                         *)
(* Of a member's fields the password is followed: a form leaves it empty   *)
(* unless it is typed.  The other fields are filled in and sent back.      *)
(***************************************************************************)
EXTENDS Integers, FiniteSets

CONSTANTS Pids,      \* ids typed
          Passwords, \* what is typed into the field of a password
          Blanked,   \* what it is before
          Joiners,   \* calls of POST /member at a time
          MaxJoins,  \* bound: calls of POST /member
          NoMember   \* no document, nobody

Fillings == Passwords \cup {Blanked}

ASSUME MembersAssumption == MaxJoins \in Nat /\ NoMember \notin Pids \cup Fillings

VARIABLES
  mbMembers,  \* collection member: the password of each
  mbJoins,    \* the calls of join
  mbStarted,  \* calls of join so far
  mbEarned,   \* per id: welcome points, in units of 10000
  mbUser,     \* sessionStorage user_id
  mbLogins,   \* ids of the calls of GET /member that logins wait for
  mbPage,     \* the page that is mounted
  mbPatch,    \* a call of PATCH /my/edit under way, or none
  mbRaced     \* history: did calls of join overlap

mbService == <<mbMembers, mbJoins, mbStarted, mbEarned, mbRaced>>
mbTab == <<mbUser, mbLogins, mbPage, mbPatch>>
mbVars == <<mbService, mbTab>>

NoJoin == [step |-> "idle", pid |-> NoMember, pwd |-> Blanked]
NoPatch == [pid |-> NoMember, pwd |-> Blanked]

(* confirmed: Privacy shows its form, of the member pid. *)
NoMemberPage == [name |-> "other", pid |-> NoMember, pwd |-> Blanked, confirmed |-> FALSE]

MembersInit ==
  /\ mbMembers = [p \in Pids |-> NoMember]
  /\ mbJoins = [j \in Joiners |-> NoJoin] /\ mbStarted = 0
  /\ mbEarned = [p \in Pids |-> 0] /\ mbRaced = FALSE
  /\ mbUser = NoMember /\ mbLogins = {} /\ mbPage = NoMemberPage /\ mbPatch = NoPatch

Joined == {p \in Pids : mbMembers[p] # NoMember}

-----------------------------------------------------------------------------
(* MemberService *)

JoinGoes(j, step) == mbJoins' = [mbJoins EXCEPT ![j].step = step]
JoinEnds(j) == mbJoins' = [mbJoins EXCEPT ![j] = NoJoin]

ValidateDuplicateMember(j) ==
  /\ mbJoins[j].step = "validate"
  /\ IF mbJoins[j].pid \in Joined THEN JoinEnds(j) ELSE JoinGoes(j, "save")
  /\ UNCHANGED <<mbMembers, mbStarted, mbEarned, mbRaced, mbTab>>

SaveMember(j) ==
  /\ mbJoins[j].step = "save"
  /\ mbMembers' = [mbMembers EXCEPT ![mbJoins[j].pid] = mbJoins[j].pwd]
  /\ JoinGoes(j, "welcome")
  /\ UNCHANGED <<mbStarted, mbEarned, mbRaced, mbTab>>

(* The answer of a form that was sent leads to the start page, whatever page is open. *)
SentAnswered == mbPage' \in {mbPage, NoMemberPage}

(* POST /point/earn; a failure is only logged, and an answer that is late is one. *)
WelcomePoints(j) ==
  /\ mbJoins[j].step = "welcome"
  /\ \E earned \in {0, 1} : mbEarned' = [mbEarned EXCEPT ![mbJoins[j].pid] = @ + earned]
  /\ JoinEnds(j)
  /\ SentAnswered
  /\ UNCHANGED <<mbMembers, mbStarted, mbRaced, mbUser, mbLogins, mbPatch>>

(* The process dies under the call. *)
JoinDies(j) ==
  /\ mbJoins[j] # NoJoin
  /\ JoinEnds(j)
  /\ UNCHANGED <<mbMembers, mbStarted, mbEarned, mbRaced, mbTab>>

(* update: all fields of the request, whatever they are. *)
UpdateMember ==
  /\ mbPatch # NoPatch
  /\ mbMembers' = IF mbPatch.pid \in Joined THEN [mbMembers EXCEPT ![mbPatch.pid] = mbPatch.pwd] ELSE mbMembers
  /\ mbPatch' = NoPatch
  /\ SentAnswered
  /\ UNCHANGED <<mbJoins, mbStarted, mbEarned, mbRaced, mbUser, mbLogins>>

-----------------------------------------------------------------------------
(* The pages *)

(* Any page may be loaded.  Leaving one forgets what it holds, not its calls. *)
GoTo(name) ==
  /\ mbPage' = [NoMemberPage EXCEPT !.name = name]
  /\ UNCHANGED <<mbService, mbUser, mbLogins, mbPatch>>

(* The button of Menubar and Mymenubar; it leads to the start page. *)
OnLogout ==
  /\ mbUser # NoMember
  /\ mbUser' = NoMember /\ mbPage' = NoMemberPage
  /\ UNCHANGED <<mbService, mbLogins, mbPatch>>

(* Join: its fields are typed before it is submitted; the button stays enabled. *)
SubmitJoin(j) ==
  /\ mbPage.name = "join"
  /\ mbJoins[j] = NoJoin /\ mbStarted < MaxJoins
  /\ \E pid \in Pids, pwd \in Fillings : mbJoins' = [mbJoins EXCEPT ![j] = [step |-> "validate", pid |-> pid, pwd |-> pwd]]
  /\ mbStarted' = mbStarted + 1
  /\ mbRaced' = (mbRaced \/ \E k \in Joiners : mbJoins[k] # NoJoin)
  /\ UNCHANGED <<mbMembers, mbEarned, mbTab>>

(* onClickLogin: all members are asked for. *)
OnClickLogin(pid) ==
  /\ mbPage.name = "login"
  /\ mbLogins' = mbLogins \cup {pid}
  /\ UNCHANGED <<mbService, mbUser, mbPage, mbPatch>>

(* The answer is compared with what was typed: the user is stored, on the way to  *)
(* the start page, whatever page is open by then, or there is an alert.           *)
LoginAnswered(pid) ==
  /\ pid \in mbLogins
  /\ mbLogins' = mbLogins \ {pid}
  /\ \/ /\ pid \in Joined
        /\ mbUser' = pid /\ mbPage' = NoMemberPage
     \/ UNCHANGED <<mbUser, mbPage>>
  /\ UNCHANGED <<mbService, mbPatch>>

(* Privacy's onClick: the member of the session, when the password was typed right; *)
(* the password of the form stays empty until it is typed.                          *)
ConfirmPassword ==
  /\ ~mbPage.confirmed /\ mbUser \in Joined
  /\ mbPage' = [mbPage EXCEPT !.confirmed = TRUE, !.pid = mbUser]
  /\ UNCHANGED <<mbService, mbUser, mbLogins, mbPatch>>

(* onmemChange *)
TypePassword(pwd) ==
  /\ mbPage.confirmed
  /\ mbPage' = [mbPage EXCEPT !.pwd = pwd]
  /\ UNCHANGED <<mbService, mbUser, mbLogins, mbPatch>>

(* Privacy's handleSubmit.  Bound: one call at a time. *)
SubmitPrivacy ==
  /\ mbPage.confirmed /\ mbPatch = NoPatch
  /\ mbPatch' = [pid |-> mbPage.pid, pwd |-> mbPage.pwd]
  /\ UNCHANGED <<mbService, mbUser, mbLogins, mbPage>>

(* The question for the password, or the form. *)
PrivacyForm ==
  /\ mbPage.name = "privacy"
  /\ \/ ConfirmPassword
     \/ \E pwd \in Fillings : TypePassword(pwd)
     \/ SubmitPrivacy

MembersNext ==
  \/ \E j \in Joiners : SubmitJoin(j) \/ JoinDies(j) \/ ValidateDuplicateMember(j) \/ SaveMember(j) \/ WelcomePoints(j)
  \/ UpdateMember
  \/ \E name \in {"login", "join", "privacy", "other"} : GoTo(name)
  \/ OnLogout
  \/ \E pid \in Pids : OnClickLogin(pid) \/ LoginAnswered(pid)
  \/ PrivacyForm

MembersSpec == MembersInit /\ [][MembersNext]_mbVars

-----------------------------------------------------------------------------
(* Properties *)

MembersTypeOK ==
  /\ mbMembers \in [Pids -> Fillings \cup {NoMember}]
  /\ mbJoins \in [Joiners -> [step : {"idle", "validate", "save", "welcome"}, pid : Pids \cup {NoMember}, pwd : Fillings]]
  /\ mbStarted \in 0..MaxJoins /\ mbEarned \in [Pids -> 0..MaxJoins] /\ mbRaced \in BOOLEAN
  /\ mbUser \in Pids \cup {NoMember} /\ mbLogins \subseteq Pids
  /\ mbPage \in [name : {"other", "login", "join", "privacy"}, pid : Pids \cup {NoMember}, pwd : Fillings,
                 confirmed : BOOLEAN]
  /\ mbPatch \in [pid : Pids \cup {NoMember}, pwd : Fillings]

(* Nobody is given welcome points who did not join, and nobody twice, unless calls  *)
(* of join overlapped; the user of the session is a member; and the form that       *)
(* changes personal data is of the user of the session, even if an earlier login is *)
(* answered while it is open (MemberService.join, Login.js, Privacy.js).            *)
MembersAgree ==
  /\ \A p \in Pids : mbEarned[p] > 0 => p \in Joined
  /\ ~mbRaced => \A p \in Pids : mbEarned[p] <= 1
  /\ mbUser # NoMember => mbUser \in Joined
  /\ mbPage.confirmed => mbPage.pid = mbUser
=============================================================================
