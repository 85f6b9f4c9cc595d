----------------------------- MODULE AfterSales -----------------------------
(***************************************************************************)
(* What a customer may ask for after a purchase: claims on one warranty,   *)
(* returns of one line of one delivered order, and one support ticket.     *)
(*                                                                         *)
(* Staff transitions match on the status they read and the statuses never  *)
(* come back in between, so each is one action.  A return is inserted by a *)
(* transaction that only read the other returns, and a reply is saved over *)
(* whatever happened to the ticket since it was read: these are two.       *)
(***************************************************************************)
EXTENDS Integers, FiniteSets, FiniteSetsExt

CONSTANTS
  Claims,          \* claims that may be submitted
  ClaimAllowance,  \* Warranty.claimAllowance, 0 for no limit
  Returns,         \* return requests that may be submitted
  Bought,          \* units of the line the order delivered
  MaxItems,        \* items of one request that may name the line
  Replies          \* replies that may be sent, each with its idempotency key

ASSUME AfterSalesAssumption ==
  ClaimAllowance \in Nat /\ Bought \in Nat \ {0} /\ MaxItems \in Nat \ {0}

VARIABLES
  cover,      \* the warranty: "UPCOMING", "ACTIVE", "EXPIRED" or "VOID"
  claim,      \* Claim documents
  window,     \* the order is delivered and its return window is open
  return,     \* ReturnRequest documents
  returning,  \* transactions that found a return eligible
  ticket,     \* the SupportTicket document
  replying    \* replies whose handler has read the ticket

claimVars == <<cover, claim>>
returnVars == <<window, return, returning>>
ticketVars == <<ticket, replying>>
afterSalesVars == <<claimVars, returnVars, ticketVars>>

ClaimStatus ==
  {"absent", "submitted", "screening", "inspection_required", "under_inspection", "approved",
   "remedy_in_progress", "rejected", "resolved", "closed", "cancelled"}

ReturnStatus ==
  {"ABSENT", "SUBMITTED", "INSPECTION_REQUIRED", "UNDER_INSPECTION", "APPROVED", "REJECTED",
   "REMEDY_IN_PROGRESS", "RESOLVED", "CANCELLED"}

TicketStatus == {"absent", "open", "in_progress", "resolved", "closed"}

ClaimDocument == [status : ClaimStatus, active : BOOLEAN]

(* The most units the items of one request may ask for together.           *)
MostAsked == MaxItems * Bought

(* quantity and accepted are sums over the items that name the line.       *)
ReturnDocument == [status : ReturnStatus, quantity : 0..MostAsked, accepted : 0..MostAsked]

(* messages are known by their keys: two that share one are not told apart.*)
TicketDocument == [status : TicketStatus, messages : SUBSET Replies]
Reply == [key : Replies, by : {"customer", "support"}, seen : TicketStatus]

ClaimsInit ==
  /\ cover = "UPCOMING"
  /\ claim = [c \in Claims |-> [status |-> "absent", active |-> FALSE]]

ReturnsInit ==
  /\ window = "closed"
  /\ return = [r \in Returns |-> [status |-> "ABSENT", quantity |-> 0, accepted |-> 0]]
  /\ returning = {}

TicketInit ==
  /\ ticket = [status |-> "absent", messages |-> {}]
  /\ replying = {}

AfterSalesInit == ClaimsInit /\ ReturnsInit /\ TicketInit

-----------------------------------------------------------------------------
(* Claims                                                                  *)

(* Time passes; VOID is written by no handler, operators do in the         *)
(* database.                                                               *)
WarrantyTurns(to) ==
  /\ \/ cover = "UPCOMING" /\ to = "ACTIVE"
     \/ cover = "ACTIVE" /\ to \in {"EXPIRED", "VOID"}
  /\ cover' = to
  /\ UNCHANGED <<claim, returnVars, ticketVars>>

ActiveClaims == {c \in Claims : claim[c].active}

warrantyStatus ==
  IF cover = "ACTIVE" /\ ClaimAllowance > 0 /\ Cardinality(ActiveClaims) >= ClaimAllowance
  THEN "EXHAUSTED" ELSE cover

CreateCustomerClaim(c) ==
  /\ claim[c].status = "absent"
  /\ warrantyStatus = "ACTIVE"
  /\ ActiveClaims = {}
  /\ claim' = [claim EXCEPT ![c] = [status |-> "submitted", active |-> TRUE]]
  /\ UNCHANGED <<cover, returnVars, ticketVars>>

claimTransitions(from) ==
  CASE from = "submitted"           -> {"screening", "cancelled"}
    [] from = "screening"           -> {"inspection_required", "approved", "rejected"}
    [] from = "inspection_required" -> {"under_inspection", "cancelled"}
    [] from = "under_inspection"    -> {"approved", "rejected"}
    [] from = "approved"            -> {"remedy_in_progress", "resolved"}
    [] from = "remedy_in_progress"  -> {"resolved"}
    [] from \in {"rejected", "resolved"} -> {"closed"}
    [] OTHER                        -> {}

terminalStatuses_Bug == {"remedy_in_progress", "rejected", "resolved", "closed", "cancelled"}
terminalStatuses == {"rejected", "resolved", "closed", "cancelled"}

ClaimTurned_Bug(c, status) == [status |-> status, active |-> status \notin {"resolved", "cancelled"}]
ClaimTurned(c, status) == [status |-> status, active |-> status \notin terminalStatuses]

UpdateClaimStatus(c, status) ==
  /\ status \in claimTransitions(claim[c].status)
  /\ claim' = [claim EXCEPT ![c] = ClaimTurned(c, status)]
  /\ UNCHANGED <<cover, returnVars, ticketVars>>

-----------------------------------------------------------------------------
(* Returns                                                                 *)

(* The order is delivered, and the fourteen days begin; then they are over.*)
WindowTurns ==
  /\ window # "over"
  /\ window' = IF window = "closed" THEN "open" ELSE "over"
  /\ UNCHANGED <<claimVars, return, returning, ticketVars>>

activeReturnStates ==
  {"SUBMITTED", "INSPECTION_REQUIRED", "UNDER_INSPECTION", "APPROVED", "REMEDY_IN_PROGRESS",
   "RESOLVED"}

Returned ==
  MapThenSumSet(LAMBDA r : return[r].quantity,
                {r \in Returns : return[r].status \in activeReturnStates})

Remaining == Max({0, Bought - Returned})

(* Each item is compared with what remains, and nothing keeps a request    *)
(* from naming the line more than once: n items ask for up to n times it.  *)
BeginReturn(r, quantity) ==
  /\ return[r].status = "ABSENT" /\ \A b \in returning : b.return # r
  /\ window = "open" /\ quantity <= MaxItems * Remaining
  /\ returning' = returning \cup {[return |-> r, quantity |-> quantity]}
  /\ UNCHANGED <<claimVars, window, return, ticketVars>>

(* Two transactions insert different documents: neither conflicts with the *)
(* other, although each changes what the other one read.                   *)
Inserted_Bug(b) == [status |-> "submitted", quantity |-> b.quantity, accepted |-> 0]
Inserted(b) == [status |-> "SUBMITTED", quantity |-> b.quantity, accepted |-> 0]

CommitReturn(b) ==
  /\ return' = [return EXCEPT ![b.return] = Inserted(b)]
  /\ returning' = returning \ {b}
  /\ UNCHANGED <<claimVars, window, ticketVars>>

AbortReturn(b) ==
  /\ returning' = returning \ {b}
  /\ UNCHANGED <<claimVars, window, return, ticketVars>>

returnTransitions(from) ==
  CASE from = "SUBMITTED" ->
         {"INSPECTION_REQUIRED", "UNDER_INSPECTION", "APPROVED", "REJECTED", "CANCELLED"}
    [] from = "INSPECTION_REQUIRED" -> {"UNDER_INSPECTION", "CANCELLED"}
    [] from = "UNDER_INSPECTION"    -> {"APPROVED", "REJECTED", "CANCELLED"}
    [] from = "APPROVED"            -> {"REMEDY_IN_PROGRESS", "RESOLVED"}
    [] from = "REMEDY_IN_PROGRESS"  -> {"RESOLVED"}
    [] from = "REJECTED"            -> {"CANCELLED"}
    [] OTHER                        -> {}

(* A staff decision may also set the accepted quantity of the items, each  *)
(* within what it asked for.                                               *)
DecideReturn(r, status, accepted) ==
  /\ status \in returnTransitions(return[r].status)
  /\ accepted <= return[r].quantity
  /\ return' = [return EXCEPT ![r].status = status, ![r].accepted = accepted]
  /\ UNCHANGED <<claimVars, window, returning, ticketVars>>

-----------------------------------------------------------------------------
(* The support ticket                                                      *)

CreateSupportTicket ==
  /\ ticket.status = "absent"
  /\ ticket' = [ticket EXCEPT !.status = "open"]
  /\ UNCHANGED <<claimVars, returnVars, replying>>

MayReply_Bug(by, status) == status \in {"open", "in_progress"} \/ by = "support"
MayReply(by, status) ==
  status \in {"open", "in_progress"} \/ (by = "support" /\ status # "closed")

ReadTicket(key, by) ==
  /\ ticket.status # "absent" /\ key \notin ticket.messages
  /\ MayReply(by, ticket.status)
  /\ replying' = replying \cup {[key |-> key, by |-> by, seen |-> ticket.status]}
  /\ UNCHANGED <<claimVars, returnVars, ticket>>

(* save() pushes the message and, if the ticket was open when read, writes *)
(* in_progress, whatever the status and the messages are by now.           *)
SaveReply(r) ==
  /\ ticket' = [ticket EXCEPT !.status = IF r.seen = "open" THEN "in_progress" ELSE @,
                              !.messages = @ \cup {r.key}]
  /\ replying' = replying \ {r}
  /\ UNCHANGED <<claimVars, returnVars>>

FailReply(r) ==
  /\ replying' = replying \ {r}
  /\ UNCHANGED <<claimVars, returnVars, ticket>>

ticketTransitions(from) ==
  CASE from = "open"        -> {"in_progress", "resolved", "closed"}
    [] from = "in_progress" -> {"resolved", "closed"}
    [] from = "resolved"    -> {"closed", "in_progress"}
    [] OTHER                -> {}

UpdateTicketStatus(status) ==
  /\ status \in ticketTransitions(ticket.status)
  /\ ticket' = [ticket EXCEPT !.status = status]
  /\ UNCHANGED <<claimVars, returnVars, replying>>

-----------------------------------------------------------------------------
ClaimStep ==
  \/ \E to \in {"ACTIVE", "EXPIRED", "VOID"} : WarrantyTurns(to)
  \/ \E c \in Claims : \/ CreateCustomerClaim(c)
                       \/ \E status \in ClaimStatus : UpdateClaimStatus(c, status)

ReturnStep ==
  \/ WindowTurns
  \/ \E r \in Returns : \/ \E quantity \in 1..MostAsked : BeginReturn(r, quantity)
                        \/ \E status \in ReturnStatus, accepted \in 0..MostAsked :
                             DecideReturn(r, status, accepted)
  \/ \E b \in returning : CommitReturn(b) \/ AbortReturn(b)

TicketStep ==
  \/ CreateSupportTicket
  \/ \E key \in Replies, by \in {"customer", "support"} : ReadTicket(key, by)
  \/ \E r \in replying : SaveReply(r) \/ FailReply(r)
  \/ \E status \in TicketStatus : UpdateTicketStatus(status)

AfterSalesNext == ClaimStep \/ ReturnStep \/ TicketStep

AfterSalesSpec == AfterSalesInit /\ [][AfterSalesNext]_afterSalesVars

-----------------------------------------------------------------------------
(* Properties                                                              *)

(* Documents have the shapes the schemas of Warranty, Claim, ReturnRequest *)
(* and SupportTicket give them.                                            *)
AfterSalesTypeOK ==
  /\ cover \in {"UPCOMING", "ACTIVE", "EXPIRED", "VOID"}
  /\ claim \in [Claims -> ClaimDocument]
  /\ window \in {"closed", "open", "over"}
  /\ return \in [Returns -> ReturnDocument]
  /\ returning \subseteq [return : Returns, quantity : 1..MostAsked]
  /\ ticket \in TicketDocument
  /\ replying \subseteq Reply

(* docs/be-10-customer-domain-contracts.md:96: "Return item quantity       *)
(* accounting calculates remaining available quantities across all         *)
(* active/completed returns per order inside a MongoDB transaction".  The  *)
(* returns of a line never take back more of it than was bought.           *)
ReturnsWithinOrder == Returned <= Bought

UnderWay(c) == claim[c].status \notin {"absent", "rejected", "resolved", "closed", "cancelled"}

(* createCustomerClaim and updateClaimStatus: the index that keeps claims  *)
(* of one warranty apart looks at a flag, staff move a status; at most one *)
(* claim is under way however they move it.                                *)
OneClaimUnderWay ==
  \A c, d \in Claims : UnderWay(c) /\ UnderWay(d) => c = d

(* updateClaimStatus and decideReturn: an allowance or a quantity that was *)
(* given back to the customer is never taken again by the same document,   *)
(* since another one may have been granted in the meantime.                *)
ReleasedStaysReleased ==
  /\ \A c \in Claims :
       claim[c].status # "absent" /\ ~claim[c].active => ~claim'[c].active
  /\ \A r \in Returns :
       return[r].status \in {"REJECTED", "CANCELLED"} =>
         return'[r].status \notin activeReturnStates

(* replyToTicket and updateTicketStatus, which has no transition from      *)
(* closed.  Nobody starts to reply to a closed ticket; what it still takes *)
(* are replies that were read before it was closed, and only one that read *)
(* it open opens it again.  Once none of them is left, closed is final.    *)
ClosedTakesOnlyLateReplies ==
  ticket.status = "closed" =>
    /\ replying' \subseteq replying
    /\ ticket.messages \subseteq ticket'.messages
    /\ ticket'.messages \subseteq ticket.messages \cup {r.key : r \in replying \ replying'}
    /\ ticket'.status # "closed" => \E r \in replying \ replying' : r.seen = "open"

(* What was decided after a sale stays decided: nobody claims twice or gets*)
(* an allowance back by overtaking somebody else, and a closed ticket is   *)
(* written only by replies that were under way when it was closed.         *)
CasesStayDecided ==
  [][OneClaimUnderWay' /\ ReleasedStaysReleased /\ ClosedTakesOnlyLateReplies]_afterSalesVars
=============================================================================
