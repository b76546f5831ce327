---------------------------- MODULE ReflectionCard ----------------------------
(***************************************************************************)
(* The card on which a human approves or rejects what the reflection agent *)
(* proposes (src/dashboard/client/components/reflection-card.tsx), against *)
(* the server's two routes.  Proposals keep coming in and other admins     *)
(* decide at the same time; requests take as long as they take, and the    *)
(* signals of the card outlive its unmounting.                             *)
(***************************************************************************)
EXTENDS Naturals, Sequences

CONSTANTS
  MaxRows,    \* bound: proposals ever saved
  Limit,      \* how many the card asks for: 5 in the code
  MaxOpens,   \* bound: times the card is mounted
  MaxFaults   \* bound: requests and queries that fail

VARIABLES
  rows,      \* the table, oldest first
  list,      \* the signal listState
  busy,      \* decisionBusy
  trouble,   \* decisionError is set
  armed,     \* decisionArmed
  selected,  \* selectedProposalId, 0 for none
  loads,     \* requests for the list on their way
  post,      \* the decision on its way
  opens, faults,
  meant      \* ghost: the proposal on screen when the button was armed, 0 when a load mixed in

vars == << rows, list, busy, trouble, armed, selected, loads, post, opens, faults, meant >>

None      == "none"
Decisions == {"approved", "rejected"}
NoPost    == [pc |-> "idle", id |-> 0, decision |-> None, ok |-> FALSE]
Loading   == [status |-> "loading", ids |-> << >>, of |-> << >>]

Init ==
  /\ rows \in { << >>, << "pending" >> }
  /\ list = Loading /\ busy = None /\ trouble = FALSE /\ armed = None /\ selected = 0
  /\ loads = {} /\ post = NoPost
  /\ opens = MaxOpens /\ faults = MaxFaults /\ meant = 0

Fault == faults > 0 /\ faults' = faults - 1
card  == << list, busy, trouble, armed, selected, loads, post, opens, meant >>

-----------------------------------------------------------------------------
(* The table. *)

\* A reflection run saves a proposal, or a row that says why it failed.
Propose ==
  /\ Len(rows) < MaxRows
  /\ \E status \in {"pending", "failed"} : rows' = Append(rows, status)
  /\ UNCHANGED << card, faults >>

\* Another admin decides, or a rerun of the cycle supersedes: all that counts here is that the
\* proposal waits no longer.
Elsewhere(i) ==
  /\ rows[i] = "pending" /\ rows' = [rows EXCEPT ![i] = "superseded"]
  /\ UNCHANGED << card, faults >>

\* listRecent: the newest, newest first.
Newest == LET n == IF Len(rows) < Limit THEN Len(rows) ELSE Limit
          IN  [k \in 1..n |-> Len(rows) + 1 - k]

-----------------------------------------------------------------------------
(* The card. *)

\* loadReflections, up to the request.
LoadStarts(by, others) ==
  /\ list' = Loading /\ armed' = None
  /\ loads' = others \cup {[n |-> opens, by |-> by, pc |-> "sent", ids |-> << >>, of |-> << >>]}

\* The Stats tab is opened: useEffect.
Mount ==
  /\ opens > 0 /\ opens' = opens - 1 /\ LoadStarts("mount", loads)
  /\ UNCHANGED << rows, busy, trouble, selected, post, faults, meant >>

\* chooseShownProposal.
Shown == IF \E k \in DOMAIN list.ids : list.ids[k] = selected THEN selected ELSE list.ids[1]

\* canDecide, by what the list says of it.
CanDecide == \E k \in DOMAIN list.ids : list.ids[k] = Shown /\ list.of[k] = "pending"

\* An armed button stays armed.
SelectMutant(i) ==
  /\ list.status = "ready" /\ \E k \in DOMAIN list.ids : list.ids[k] = i
  /\ i # Shown /\ selected' = i /\ trouble' = FALSE
  /\ UNCHANGED << rows, list, busy, armed, loads, post, opens, faults, meant >>

\* selectProposal, from the history or from the notice of undecided ones.
Select(i) ==
  /\ list.status = "ready" /\ \E k \in DOMAIN list.ids : list.ids[k] = i
  /\ i # Shown /\ selected' = i /\ armed' = None /\ trouble' = FALSE
  /\ UNCHANGED << rows, list, busy, loads, post, opens, faults, meant >>

\* decisionButtonState.
Button(d) == IF armed = d THEN "armed" ELSE IF armed # None THEN "cancel" ELSE "plain"

\* DecisionButton: the first click arms, on the other button a click cancels, the second sends.
Click(d) ==
  /\ list.status = "ready" /\ CanDecide /\ busy = None
  /\ \/ /\ Button(d) = "plain" /\ armed' = d /\ meant' = Shown
        /\ UNCHANGED << busy, trouble, post >>
     \/ /\ Button(d) = "cancel" /\ armed' = None
        /\ UNCHANGED << busy, trouble, post, meant >>
     \/ /\ Button(d) = "armed" /\ armed' = None /\ busy' = d /\ trouble' = FALSE
        /\ post' = [pc |-> "sent", id |-> Shown, decision |-> d, ok |-> FALSE]
        /\ UNCHANGED meant
  /\ UNCHANGED << rows, list, selected, loads, opens, faults >>

Dismiss ==
  /\ trouble /\ list.status = "ready" /\ trouble' = FALSE
  /\ UNCHANGED << rows, list, busy, armed, selected, loads, post, opens, faults, meant >>

-----------------------------------------------------------------------------
(* Requests. *)

\* POST /api/reflections/:id/decision: the first decision stands, a later one is a 409; an
\* audit entry that fails is a 500 for a decision that was made.
Decide ==
  /\ post.pc = "sent"
  /\ LET first == rows[post.id] = "pending" IN
     \/ /\ rows' = IF first THEN [rows EXCEPT ![post.id] = post.decision] ELSE rows
        /\ post' = [post EXCEPT !.pc = "back", !.ok = first] /\ UNCHANGED faults
     \/ /\ Fault /\ post' = [post EXCEPT !.pc = "back"]
        /\ \/ UNCHANGED rows
           \/ first /\ rows' = [rows EXCEPT ![post.id] = post.decision]
  /\ UNCHANGED << list, busy, trouble, armed, selected, loads, opens, meant >>

\* decide goes on: the list again, or the server's words.
Decided ==
  /\ post.pc = "back" /\ post' = NoPost
  /\ IF post.ok THEN LoadStarts("decide", loads) /\ UNCHANGED << busy, trouble >>
     ELSE trouble' = TRUE /\ busy' = None /\ UNCHANGED << list, armed, loads >>
  /\ UNCHANGED << rows, selected, opens, faults, meant >>

\* GET /api/reflections?limit=5.
Query(l) ==
  /\ l \in loads /\ l.pc = "sent"
  /\ \/ /\ loads' = (loads \ {l}) \cup {[l EXCEPT !.pc = "back", !.ids = Newest,
                                                 !.of = [k \in DOMAIN Newest |-> rows[Newest[k]]]]}
        /\ UNCHANGED faults
     \/ Fault /\ loads' = (loads \ {l}) \cup {[l EXCEPT !.pc = "failed"]}
  /\ UNCHANGED << rows, list, busy, trouble, armed, selected, post, opens, meant >>

\* loadReflections goes on; the one of a decision gives the buttons back.
Loaded(l) ==
  /\ l \in loads /\ l.pc # "sent" /\ loads' = loads \ {l}
  /\ list' = [status |-> IF l.pc = "failed" THEN "error" ELSE IF l.ids = << >> THEN "empty" ELSE "ready",
              ids |-> l.ids, of |-> l.of]
  /\ busy' = IF l.by = "decide" THEN None ELSE busy
  /\ meant' = IF armed # None THEN 0 ELSE meant
  /\ UNCHANGED << rows, trouble, armed, selected, post, opens, faults >>

-----------------------------------------------------------------------------
Next ==
  \/ Propose \/ Mount \/ Dismiss \/ Decide \/ Decided
  \/ \E i \in 1..MaxRows : i <= Len(rows) /\ (Elsewhere(i) \/ Select(i))
  \/ \E d \in Decisions : Click(d)
  \/ \E l \in loads : Query(l) \/ Loaded(l)

Spec == Init /\ [][Next]_vars

-----------------------------------------------------------------------------
\* A click that sends a decision.
ClickMeant == post.pc = "idle" /\ post'.pc = "sent" => meant \in {0, post'.id}

\* "An armed Approve/Reject belongs to the proposal it was armed on" (reflection-card.tsx:114):
\* the decision that is sent, the one click that cannot be undone, is for that proposal,
\* whatever arrives between the two clicks - unless a load that was on its way before the
\* first click answers after it.
DecisionMeant == [][ClickMeant]_vars
=============================================================================
