SPECIFICATION LiveSpec

CONSTANTS
  Orders = {o1}
  Intents = {i1}
  RequestIds = {r1}
  OnlineChannels = {"WECHAT"}
  AccountNumbers = {a1, a2}
  AccountStatuses = {"ACTIVE"}
  AnswerStatuses = {"PENDING", "PROCESSING"}
  Events = {e1}
  Deliveries = {d1, d2}
  StaffCalls = {s1}
  StaffTargets = {"PAID", "PREPARING", "REFUNDING", "FAILED", "TIMED_OUT"}

CHECK_DEADLOCK FALSE


  

PROPERTIES
  ImplementsLifecycle
  KnownEventsAreProcessed
