-------------------------- MODULE PaymentAccounts --------------------------
(***************************************************************************)
(* The money totals cached on a Payment document and the moves the payment *)
(* transition service makes on them.  A payment is a record with the       *)
(* fields status, captured, refunded, reserved and net; currency, purpose  *)
(* and reference digests are bound once and compared by equality, so they  *)
(* are abstracted to whether a callback matches its payment.               *)
(***************************************************************************)
EXTENDS Integers

PaymentStatus ==
  {"ABSENT", "PENDING", "SUCCEEDED", "FAILED", "PARTIALLY_REFUNDED", "REFUNDED"}

RefundStatus ==
  {"ABSENT", "RESERVED", "PROVIDER_PENDING", "SUCCEEDED", "FAILED", "CANCELLED"}

PAYMENT_SUCCESS  == {"SUCCEEDED", "PARTIALLY_REFUNDED"}

(* A payment that was partly refunded is not in the service's set.         *)
PAYMENT_TERMINAL == {"SUCCEEDED", "FAILED", "CANCELLED", "REFUNDED", "DISPUTED"}

ACTIVE_REFUNDS   == {"RESERVED", "PROVIDER_PENDING"}

(* What can still be promised to a refund: neither paid back nor reserved. *)
Available_Bug(acc) == acc.captured - acc.refunded
Available(acc) == acc.captured - acc.refunded - acc.reserved

(* Settlement records the whole amount and starts the refund totals at 0.  *)
Capture(acc, amount) ==
  [acc EXCEPT !.status = "SUCCEEDED", !.captured = amount,
              !.refunded = 0, !.reserved = 0, !.net = amount]

Hold(acc, amount) == [acc EXCEPT !.reserved = @ + amount]

StatusAfterRefund(captured, refunded) ==
  IF refunded = captured THEN "REFUNDED" ELSE "PARTIALLY_REFUNDED"

Settle(acc, amount) ==
  [acc EXCEPT !.reserved = @ - amount,
              !.refunded = @ + amount,
              !.net = acc.captured - (acc.refunded + amount),
              !.status = StatusAfterRefund(acc.captured, acc.refunded + amount)]

ReleaseHold(acc, amount) == [acc EXCEPT !.reserved = @ - amount]

(* The pre-validate hook of the Payment schema, checked on every save.     *)
Balanced(acc) ==
  /\ acc.refunded + acc.reserved <= acc.captured
  /\ acc.net = acc.captured - acc.refunded
=============================================================================
