SPECIFICATION Spec
CONSTANTS
  TxEvents = {tx1, tx2}
  StateEvents = {st1, st2}
  ws = ws
  custom = custom
  rabbitmq = rabbitmq
  Enabled <- MCEnabled
  Typed = {custom}
  Late = {rabbitmq}
  Ws = ws
  Clients = {c1}
INVARIANTS
  HeardOnceInOrder
  StatesInOrder
PROPERTIES
  EndTogether
  RaisedIsHeard
