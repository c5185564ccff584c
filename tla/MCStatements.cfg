SPECIFICATION Spec
CONSTANTS
  Tx <- MCTx
  Ajustes <- MCAjustes
  Asiento <- MCAsiento
  Lote <- MCLote
  Periodos <- MCPeriodos
  Naturaleza <- MCNaturaleza
  Vias = {"A", "B"}
  MaxPedidos = 4
INVARIANTS
  StatementsTypeOK
  ReportsAgree
  StatementsCoverLedger
  
  LineageKept
  ReadyCanBeDerived

  
  
CHECK_DEADLOCK FALSE
