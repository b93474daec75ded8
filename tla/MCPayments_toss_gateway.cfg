CONSTANTS
  Threads = {t1, t2}
  Callers = {t1}
  Orders = {o1}
  Uses = {u1}
  Handlers <- CreditFirst
  WebhookSecret = "mine"
  Price = 1
  Amounts = {1, 2}
  MaxFaults = 1
SPECIFICATION Spec
INVARIANTS
  FailuresAreTyped
