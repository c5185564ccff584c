----------------------------- MODULE Accounting -----------------------------
(***************************************************************************)
(* From a document to the lines of its journal entry: the asientos printed *)
(* on the document, the corrections made to the accounts the language      *)
(* model chose, the journal builder, the lines db_persist finally writes,  *)
(* and the tags it infers for the posted transaction.                      *)
(*                                                                         *)
(* An asiento is a sequence of [cuenta, mov, valor, texto]; cuenta 0 is a  *)
(* code that is not a number and texto the set of keywords its wording     *)
(* contains.  A journal is a sequence of [cuenta, debito, credito].        *)
(***************************************************************************)
EXTENDS Ledger, Sequences, SequencesExt

CONSTANTS CuentasPuc,     \* codes of the catalogue cuentas_puc
          CatalogoVentas  \* the active revenue codes among them

SumaSeq(s, f(_)) == SumFunction([i \in DOMAIN s |-> f(s[i])])
(* What a sequence of lines is; nothing is said of the accounts. *)
EsAsiento(s) ==
  s \in Seq(Range(s)) /\ \A i \in DOMAIN s :
    s[i] = [cuenta |-> s[i].cuenta, mov |-> s[i].mov, valor |-> s[i].valor, texto |-> s[i].texto] /\ s[i].valor \in Int
EsDiario(j) == j \in Seq(Range(j)) /\ \A i \in DOMAIN j : j[i].debito \in Int /\ j[i].credito \in Int
SumaMov(s, mov) == SumaSeq(s, LAMBDA a : IF a.mov = mov THEN a.valor ELSE 0)
Primero(s, P(_)) == LET i == SelectInSeq(s, P) IN IF i = 0 THEN <<>> ELSE <<s[i]>>
(* The members of a finite set of numbers, the smallest first. *)
EnOrden(I) == [k \in 1..Cardinality(I) |-> CHOOSE i \in I : Cardinality({j \in I : j <= i}) = k]
Cifras(c) == CHOOSE k \in 1..10 : 10^(k-1) <= c /\ c < 10^k
Recorte(c, n) == IF Cifras(c) > n THEN c \div 10^(Cifras(c) - n) ELSE c

----------------------------------------------------------------------------
(* The accounts the language model gets wrong.  Tables are in the order in
   which they are tried: a keyword hides a longer one that comes later. *)

KEYWORD_TO_PUC == <<
  <<{"intereses cesantias"}, 510515>>, <<{"prima de servicios", "prima servicios"}, 510518>>,
  <<{"cesantias"}, 510510>>, <<{"vacaciones"}, 510521>>, <<{"eps", "salud empleado"}, 510527>>,
  <<{"aporte arl", "arl"}, 510530>>, <<{"aporte pension", "fondo de pensiones", "pension"}, 510533>>,
  <<{"seguridad social"}, 510527>>, <<{"caja de compensacion", "caja compensacion", "compensar"}, 510568>>,
  <<{"sena"}, 510569>>, <<{"icbf"}, 510570>>, <<{"parafiscal"}, 510568>>,
  <<{"salario", "sueldo", "nomina"}, 510505>>, <<{"juridico", "abogado", "legal"}, 511515>>,
  <<{"contador", "contabilidad", "auditor", "honorario"}, 511505>>, <<{"comision banco"}, 530525>>,
  <<{"comision"}, 511510>>, <<{"servicio tecnico"}, 511525>>, <<{"asesor"}, 511595>>,
  <<{"combustible", "gasolina", "acpm"}, 513025>>,
  <<{"servicio publico", "energia", "acueducto", "agua", "celular", "telefono", "internet"}, 513540>>,
  <<{"transporte", "flete", "mensajeria"}, 513550>>, <<{"mantenimiento", "reparacion"}, 514505>>,
  <<{"aseo", "limpieza"}, 514515>>, <<{"vigilancia", "seguridad"}, 514525>>,
  <<{"papeleria", "utiles", "licencia", "software", "hosting"}, 519525>>, <<{"ica"}, 521505>>,
  <<{"4x1000", "gmf"}, 529505>>, <<{"publicidad", "mercadeo"}, 523510>>, <<{"afiliacion"}, 519520>>,
  <<{"interes"}, 530520>>, <<{"inventario"}, 143005>>, <<{"equipo de computo"}, 152405>>,
  <<{"equipo de oficina"}, 152805>> >>

TEXT_TOKEN_TO_PUC == <<
  <<{"banco", "bancaria"}, 111005>>, <<{"caja menor"}, 110510>>, <<{"caja"}, 110505>>,
  <<{"cliente", "deudor", "cxc"}, 130505>>, <<{"proveedor", "cxp"}, 220505>>, <<{"acreedor"}, 233525>>,
  <<{"nomina por pagar"}, 250505>>, <<{"retencion"}, 236540>>, <<{"iva por pagar"}, 240805>>,
  <<{"iva descontable"}, 240810>>, <<{"iva"}, 240805>>, <<{"ica"}, 236805>>,
  <<{"ingreso", "venta"}, 413535>>, <<{"gasto"}, 519595>>, <<{"compra", "inventario"}, 143505>>,
  <<{"activo"}, 151005>>, <<{"pasivo"}, 220505>>, <<{"patrimonio", "capital"}, 310505>> >>

OtrosGastos == 519595
Buscar(tabla, texto) ==
  LET filas == Primero(tabla, LAMBDA f : f[1] \cap texto # {}) IN IF filas = <<>> THEN 0 ELSE filas[1][2]
suggest_puc(texto) == Buscar(KEYWORD_TO_PUC, texto)

correct_non_numeric_puc(a) ==
  LET posibles == <<Buscar(TEXT_TOKEN_TO_PUC, a.texto), suggest_puc(a.texto), OtrosGastos>>
  IN IF a.cuenta # 0 THEN a
     ELSE [a EXCEPT !.cuenta = Primero(posibles, LAMBDA c : c # 0)[1]]

correct_aux_codes_beyond_catalog(a) ==
  LET padres == Primero(<<Recorte(a.cuenta, 6), Recorte(a.cuenta, 4)>>, LAMBDA c : c \in CuentasPuc)
  IN IF Cifras(a.cuenta) <= 6 \/ padres = <<>> THEN a ELSE [a EXCEPT !.cuenta = padres[1]]

CROSS_CLASS == <<
  <<5110, {"banco", "bancos"}, 111005>>, <<5305, {"interes", "mora"}, 530520>>,
  <<5135, {"agua", "internet", "servicio publico"}, 513540>>, <<4135, {"venta", "comercio"}, 413535>> >>
correct_cross_class_codes(a) ==
  LET f == Primero(CROSS_CLASS, LAMBDA x : x[1] = a.cuenta /\ x[2] \cap a.texto # {})
  IN IF f = <<>> THEN a ELSE [a EXCEPT !.cuenta = f[1][3]]

correct_5195_fallback(a) ==
  IF a.cuenta = 5195 /\ a.mov = "debito" /\ suggest_puc(a.texto) # 0
  THEN [a EXCEPT !.cuenta = suggest_puc(a.texto)] ELSE a

BANK_OUTFLOW == {"comprobante_egreso", "extracto_bancario", "conciliacion_bancaria"}
correct_ce_220505_credit(a, tipo) ==
  IF tipo \in BANK_OUTFLOW /\ a.cuenta = 220505 /\ a.mov = "credito"
  THEN [a EXCEPT !.cuenta = 111005] ELSE a

correct_class_only_codes(a) ==
  LET s == suggest_puc(a.texto)
  IN IF Cifras(a.cuenta) \in {3, 4} /\ Clase(a.cuenta) \in {4, 5, 6} /\ s # 0 /\ Clase(s) = Clase(a.cuenta)
     THEN [a EXCEPT !.cuenta = s] ELSE a

correct_asiento_lines(s, tipo) ==
  [i \in DOMAIN s |->
     correct_class_only_codes(correct_ce_220505_credit(correct_5195_fallback(correct_cross_class_codes(
       correct_aux_codes_beyond_catalog(correct_non_numeric_puc(s[i])))), tipo))]

(* A revenue account outside the catalogue becomes its four-digit parent. *)
validate_ingreso_against_catalog(s) ==
  LET padres == {Recorte(c, 4) : c \in CatalogoVentas}
  IN [i \in DOMAIN s |->
        IF s[i].mov = "credito" /\ Starts(s[i].cuenta, 4) /\ s[i].cuenta \notin CatalogoVentas
             /\ Recorte(s[i].cuenta, 4) \in padres
        THEN [s[i] EXCEPT !.cuenta = Recorte(@, 4)] ELSE s[i]]

(* The asientos printed on the document, lines [cuenta, debito, credito,
   texto]: <<>> when they cannot be taken as they are.  A line keeps its
   debit when it has both sides. *)
extract_prearmed_asientos(lineas) ==
  LET orden == EnOrden({i \in DOMAIN lineas :
                           lineas[i].cuenta # 0 /\ (lineas[i].debito # 0 \/ lineas[i].credito # 0)})
      utiles == [k \in DOMAIN orden |-> lineas[orden[k]]]
      cuadra == SumaSeq(utiles, LAMBDA l : l.debito) = SumaSeq(utiles, LAMBDA l : l.credito)
      signos == \A i \in DOMAIN lineas : lineas[i].debito >= 0 /\ lineas[i].credito >= 0
  IN IF ~cuadra \/ ~signos THEN <<>>
     ELSE [i \in DOMAIN utiles |->
             [cuenta |-> utiles[i].cuenta, texto |-> utiles[i].texto,
              mov |-> IF utiles[i].debito > 0 THEN "debito" ELSE "credito",
              valor |-> IF utiles[i].debito > 0 THEN utiles[i].debito ELSE utiles[i].credito]]

(* What the contador auditor asks of an asiento before anything else. *)
Descuadre(s) == SumaMov(s, "debito") - SumaMov(s, "credito")
Cuadra(s) == Absolute(Descuadre(s)) <= 1
contador_auditor(s) == s # <<>> /\ Cuadra(s)

----------------------------------------------------------------------------
(* Journal builder.  ValueError stands for the exception. *)

ValueError == <<"ValueError">>
VENTA_DOC_TYPES == {"factura_venta", "nota_debito_venta", "nota_credito_venta", "recibo_caja"}
Renglon(c, d, h) == IF d > 0 \/ h > 0 THEN <<[cuenta |-> c, debito |-> d, credito |-> h]>> ELSE <<>>
Positivo(x) == IF x > 0 THEN x ELSE 0
(* Mutant: the journal is taken as it is. *)
validate_balance_Off(j) == j

validate_balance(j) ==
  IF Absolute(SumaSeq(j, LAMBDA l : l.debito - l.credito)) > 1 THEN ValueError ELSE j

build_from_ingest_compra(cuenta, m, cuentaIca) ==
  Renglon(cuenta, Positivo(m.total - m.iva), 0) \o Renglon(240802, m.iva, 0)
  \o Renglon(220505, 0, m.total - m.retefuente - m.reteica)
  \o Renglon(2365, 0, m.retefuente) \o Renglon(cuentaIca, 0, m.reteica)
build_from_ingest_venta(cuenta, m) ==
  Renglon(130505, m.total - m.retefuente - m.reteica, 0) \o Renglon(135515, m.retefuente, 0)
  \o Renglon(135517, m.reteica, 0) \o Renglon(cuenta, 0, Positivo(m.total - m.iva))
  \o Renglon(240805, 0, m.iva)
build_from_ingest(tipo, cuenta, m, cuentaIca) ==
  IF (\E k \in DOMAIN m : m[k] < 0) \/ m.total < m.retefuente + m.reteica THEN ValueError
  ELSE validate_balance(IF tipo \in VENTA_DOC_TYPES THEN build_from_ingest_venta(cuenta, m)
                                                    ELSE build_from_ingest_compra(cuenta, m, cuentaIca))

build_from_contador(s) ==
  IF \E i \in DOMAIN s : s[i].valor < 0 THEN ValueError
  ELSE validate_balance([i \in DOMAIN s |->
         [cuenta |-> s[i].cuenta, debito |-> IF s[i].mov = "debito" THEN s[i].valor ELSE 0,
          credito |-> IF s[i].mov = "credito" THEN s[i].valor ELSE 0]])

----------------------------------------------------------------------------
(* The lines db_persist writes *)

(* The lines of one transaction of a batch: the first unused debit of its
   total with the first unused credit of the same amount, else every line. *)
asientos_for_tx(total, s, usados) ==
  LET sirve(i, mov) == s[i].mov = mov /\ Absolute(s[i].valor - total) < 1 /\ i \notin usados
      d == {i \in DOMAIN s : sirve(i, "debito")}
      h == {i \in DOMAIN s : sirve(i, "credito")}
      gasta == (IF d = {} THEN {} ELSE {Min(d)})
               \cup (IF d = {} \/ h = {} THEN {} ELSE {Min(h)})
  IN [lineas |-> IF d # {} /\ h # {} THEN <<s[Min(d)], s[Min(h)]>> ELSE s, usados |-> usados \cup gasta]

(* The account that tags the transaction: the code or its closest ancestor in
   the catalogue; 0 stands for the error. *)
resolve_cuenta_puc(c, modo, forzado) ==
  LET codigos == <<c, Recorte(c, 6), Recorte(c, 5), Recorte(c, 4), Recorte(c, 3), Recorte(c, 2)>>
      hallada == Primero(codigos, LAMBDA x : x \in CuentasPuc)
  IN CASE c = 0                -> 0
       [] hallada # <<>>       -> hallada[1]
       [] modo = "ingest"      -> c
       [] forzado              -> OtrosGastos
       [] OTHER                -> 0

sanitize_asientos(s) ==
  LET orden == EnOrden({i \in DOMAIN s : ~(s[i].cuenta = 0 /\ "encabezado" \in s[i].texto)})
      fila(a) == IF a.cuenta = 0 THEN [a EXCEPT !.cuenta = OtrosGastos] ELSE a
  IN [k \in DOMAIN orden |-> fila(s[orden[k]])]

cuenta_debito(s) ==
  LET d == Primero(s, LAMBDA a : a.mov = "debito") IN IF d = <<>> THEN 0 ELSE d[1].cuenta

(* Ingest mode: no posted row without an account, unless the company works
   with existing books; bank documents and inflows are turned around. *)
lineas_ingest(tipo, cuenta, m, cuentaIca, existentes, entrada, texto) ==
  LET c == IF cuenta = 0 THEN OtrosGastos ELSE cuenta
      propio == IF c \in {5195, OtrosGastos} /\ suggest_puc(texto) # 0 THEN suggest_puc(texto) ELSE c
      base == build_from_ingest(tipo, c, m, cuentaIca)
      banco(x) == IF tipo \in BANK_OUTFLOW /\ x.cuenta = 220505 /\ x.credito > 0 THEN 111005 ELSE x.cuenta
      vuelta == tipo = "extracto_bancario" /\ entrada
      linea(x) == [cuenta |-> IF banco(x) \in {5195, OtrosGastos} /\ c \in {5195, OtrosGastos}
                              THEN (IF propio = c THEN banco(x) ELSE propio) ELSE banco(x),
                   debito |-> IF vuelta THEN x.credito ELSE x.debito,
                   credito |-> IF vuelta THEN x.debito ELSE x.credito]
  IN IF cuenta = 0 /\ ~existentes THEN <<>>
     ELSE IF base = ValueError THEN ValueError ELSE [i \in DOMAIN base |-> linea(base[i])]

----------------------------------------------------------------------------
(* Tags of the posted transaction *)

infer_tipo_iva_from_journal(j) ==
  LET abona(p) == \E i \in DOMAIN j : j[i].credito > 0 /\ Starts(j[i].cuenta, p)
  IN CASE abona(240805) -> "gravado_19" [] abona(240807) -> "gravado_5"
       [] abona(4175) -> "exportacion" [] OTHER -> "sin_clasificar"

CATEGORIAS == <<
  <<511525, "servicios">>, <<511505, "honorarios">>, <<511510, "honorarios">>, <<5135, "arrendamiento">>,
  <<5140, "arrendamiento">>, <<5110, "honorarios">>, <<5111, "honorarios">>, <<5115, "servicios">>,
  <<5145, "servicios">>, <<5160, "servicios">>, <<6135, "compras">>, <<6205, "compras">>, <<143, "compras">> >>
SinCategoria == ""
(* The longest prefix wins, and the table is in that order. *)
categoria_retencion_from_puc(c) ==
  LET f == Primero(CATEGORIAS, LAMBDA x : Starts(c, x[1])) IN IF f = <<>> THEN SinCategoria ELSE f[1][2]
infer_concepto_retencion(c, persona) ==
  CASE categoria_retencion_from_puc(c) = SinCategoria -> SinCategoria
    [] categoria_retencion_from_puc(c) = "servicios" -> IF persona = "PN" THEN "serv_pn_decl" ELSE "servicios_pj"
    [] OTHER -> categoria_retencion_from_puc(c) \o (IF persona = "PN" THEN "_pn" ELSE "_pj")
=============================================================================
