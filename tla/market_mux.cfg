SPECIFICATION FairSpec
CONSTANTS
  t1 = t1
  t2 = t2
  t3 = t3
  mes = mes
  mnq = mnq
  Consumers = {t1, t2, t3}
  Contracts = {mes, mnq}
  ContractOf <- MCContractOf
  Faults = {"noContractId", "sendFails", "reconnect"}
  MaxQuotes = 2
INVARIANTS HubServesConsumers OneConnection
PROPERTIES MuxIsFeed EveryQuoteTaken EveryTaskServed
CHECK_DEADLOCK FALSE
