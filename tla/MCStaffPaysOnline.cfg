SPECIFICATION Spec

CONSTANTS
  Orders = {o1}
  Intents = {i1}
  RequestIds = {r1}
  OnlineChannels = {"WECHAT"}
  AccountNumbers = {a1}
  AccountStatuses = {"ACTIVE"}
  AnswerStatuses = {"PENDING", "PROCESSING", "SUCCEEDED"}
  Events = {e1}
  Deliveries = {d1}
  StaffCalls = {s1}
  StaffTargets = {"PAID", "CANCELLED"}

CHECK_DEADLOCK FALSE

INVARIANTS
  OnlineOrdersArePaidByWebhook
