---------------------------------- MODULE Pricing ----------------------------------
(***************************************************************************)
(* Pricing: the arithmetic of order-commission.util.ts and of the checkout *)
(* (whole KZT).  No state.                                                 *)
(***************************************************************************)
EXTENDS Integers

CONSTANTS
  CommissionPercent,   \* COMMISSION_PERCENT
  DeliveryFee          \* DELIVERY_FEE, of every order

ASSUME PricingAssumption ==
  /\ CommissionPercent \in 0..100
  /\ DeliveryFee \in Nat

\* Math.max(0, n), of a number that is whole already (the columns are integers).
NonNegative(n) == IF n < 0 THEN 0 ELSE n

\* Bug variant: rounded to the nearest.
Commission_Nearest(n) == (n * CommissionPercent + 50) \div 100

Commission(n) == (n * CommissionPercent) \div 100

ComputeOrderCommission(total) ==
  LET normalized == NonNegative(total)
  IN  [commission |-> Commission(normalized),
       cookPayout |-> normalized - Commission(normalized)]

\* Bug variant: the fee is part of the base.
OrderFoodSubtotal_WithFee(order) == NonNegative(order.totalAmount)

\* The base of the commission, from the amounts of an order's row.
OrderFoodSubtotal(order) ==
  NonNegative(NonNegative(order.totalAmount) - NonNegative(order.deliveryFee))

\* What every view of an order adds to the row.
CommissionFields(order) == ComputeOrderCommission(OrderFoodSubtotal(order))

\* The figures of the dashboards, from the sums over the paid orders.
ComputeCommissionFromAggregateOrders(totalAmountSum, deliveryFeeSum) ==
  ComputeOrderCommission(NonNegative(totalAmountSum - NonNegative(deliveryFeeSum)))

\* computePricingForItems, of the sum over the items; a discount that is asked for
\* is not granted.
PricingFor(itemsTotal) ==
  [itemsTotal |-> itemsTotal,
   platformFee |-> ComputeOrderCommission(itemsTotal).commission,
   deliveryFee |-> DeliveryFee,
   discountAmount |-> 0,
   totalAmount |-> itemsTotal + DeliveryFee]
=============================================================================
