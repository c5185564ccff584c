SPECIFICATION Spec
CONSTANTS
  Naturaleza <- MCNaturaleza
  CuentasPuc <- MCCuentasPuc
  CatalogoVentas <- MCCatalogoVentas
  Hoy <- MCHoy
  Nit = 1
  Documentos <- MCDocumentos
  Nominas <- MCNominas
  TablasIniciales <- MCTablas
  Altas <- MCAltas
  Valores = {7}
  Periodos <- MCPeriodos
  MaxPasos = 3
  MaxDrafts = 2
  MaxEdiciones = 2
INVARIANTS
  EntriesBalance
  TaxesBookedOnce
  
PROPERTIES
  ReturnsMatchBooks
  
CHECK_DEADLOCK FALSE
