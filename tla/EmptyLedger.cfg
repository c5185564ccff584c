SPECIFICATION Spec
CONSTANTS
  Tx <- MCTx
  Ajustes <- MCAjustes
  Asiento <- MCAsiento
  Lote <- MCLote
  Periodos <- MCPeriodos
  Naturaleza <- MCNaturaleza
  Vias = {"A"}
  MaxPedidos = 3
PROPERTIES
  EmptyLedgerEmptyReports
CHECK_DEADLOCK FALSE
