\* One message and one receive, a mailbox that cannot overflow.
SPECIFICATION MailboxSpec
CONSTANTS
  m1 = m1  m2 = m2  m3 = m3  m4 = m4
  alice = alice  bob = bob
  Tokens = {alice}
  Messages = {m1}
  ToOf <- ToAlice
  WrongType = {}
  Cap = 2
  MaxRecv = 1
INVARIANT
  AckedMessageKept
CHECK_DEADLOCK FALSE
