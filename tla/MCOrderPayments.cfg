SPECIFICATION Spec

CONSTANTS
  Orders = {o1}
  Intents = {i1, i2}
  RequestIds = {r1, r2}
  OnlineChannels = {"WECHAT"}
  AccountNumbers = {a1}
  AccountStatuses = {"ACTIVE"}
  AnswerStatuses = {"PENDING", "SUCCEEDED"}
  Events = {e1, e2}
  Deliveries = {d1, d2}
  StaffCalls = {s1}
  StaffTargets = {"PAID", "CANCELLED"}

SYMMETRY Interchangeable

CHECK_DEADLOCK FALSE

INVARIANTS
  TypeOK
  PaidAtMostOnce
  WebhookPaymentIsBacked
  MoneyIsRecordedOnce
  ProcessedSuccessIsSettled

PROPERTIES
  SuccessIsFinal
  ChannelIsFrozenOncePaid
