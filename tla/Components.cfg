SPECIFICATION ComponentsSpec
CONSTANTS
  Mission = {m1}
  Classes = {"consequential", "other"}
  Reported = {"unknown", "timeout"}
  NoReason = NoReason
  MaxFaults = 4
  QTask = {a, b}
  Priority = {1, 5}
  Reader = {r1, r2}
  NoTask = NoTask
  MaxSeq = 4
  Client = {a1, a2}
  OneTime = {o}
  Recurring = {t}
  Chain = {k1, k2}
  NoChain = NoChain
  NoTimed = NoTimed
  Worker = {w1, w2}
  Plain = {w2}
  Direct = {w2}
  MaxConcurrent = 1
  Caller = {c1, c2}
  NoCaller = NoCaller
  MaxVersion = 4
  Agent = {g1, g2}
  GuardedCall = {call1}
  Activity = {v1, v2, v3, v4}
  Compensable = {v1, v2, v3}
  MaxAttempts = 2
INVARIANTS
  ComponentsTypeOK
  ContactOnRecord
  InheritedQueued
  OneActiveItem
  NoneSleepsOnWork
  CancelHolds
  HonestSuccess
  ChainMatchesRow
  StopHolds
  AllowedAsAnswered
  RolledBack
  RunsUntilSuccess
PROPERTIES
  KeepsAccount
  KeepsOrder
  KeepsRunning
  TerminalSticks
  HistoryGrows
CHECK_DEADLOCK FALSE
