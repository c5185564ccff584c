------------------------------- MODULE Taxes --------------------------------
(***************************************************************************)
(* The tributario agent: which taxes a document carries, what the company's *)
(* tables say of them, and the journal entry with its tax lines.  Amounts  *)
(* are whole pesos and rates are per ten thousand.                         *)
(*                                                                         *)
(* A document is a record: tipo, parte (the side of it the company is on), *)
(* directa (a cash receipt that is a sale), items [base, marca, iva],      *)
(* total_iva and total (Nada when not extracted), retenciones [tipo,       *)
(* valor], aplicar, publica, prearmado and texto (its keywords).           *)
(***************************************************************************)
EXTENDS Accounting, TaxTables

CONSTANT Hoy \* the month in which documents are processed

Redondeo(x) == (x + 5000) \div 10000
Tarifa(base, tasa) == Redondeo(base * tasa)
Elegir(S, omision) == IF S = {} THEN omision ELSE CHOOSE v \in S : TRUE
Otro(mov) == IF mov = "debito" THEN "credito" ELSE "debito"
flip_movimiento(par) == [par EXCEPT !.mov = Otro(@)]

----------------------------------------------------------------------------
(* Direction and accounts *)

nota_is_venta(doc) ==
  CASE doc.parte = "emisor" -> TRUE [] doc.parte = "receptor" -> FALSE [] OTHER -> doc.tipo = "factura_venta"
EsVenta(doc) == IF doc.tipo \in {"nota_credito", "nota_debito"} THEN nota_is_venta(doc)
                ELSE doc.tipo \in {"factura_venta", "recibo_caja"}
EsReverso(doc) == doc.tipo = "nota_credito"

tax_accounts_for(venta, cuentaIca) ==
  IF venta THEN [iva |-> [cuenta |-> 240805, mov |-> "credito"],
                 retefuente |-> [cuenta |-> 135515, mov |-> "debito"],
                 reteica |-> [cuenta |-> 135517, mov |-> "debito"]]
  ELSE [iva |-> [cuenta |-> 240802, mov |-> "debito"],
        retefuente |-> [cuenta |-> 2365, mov |-> "credito"],
        reteica |-> [cuenta |-> cuentaIca, mov |-> "credito"]]
CuentasDe(doc, s) ==
  LET c == tax_accounts_for(EsVenta(doc), s.cuenta_ica_propio)
  IN IF EsReverso(doc) THEN [k \in DOMAIN c |-> flip_movimiento(c[k])] ELSE c

Arrendamiento == {"arrendam", "alquiler", "leasing"}
(* First debit line that says something; a purchase falls back on its words. *)
detect_transaction_type(s, doc) ==
  LET cat(a) == categoria_retencion_from_puc(a.cuenta)
      tipo(a) == IF a.mov # "debito" THEN SinCategoria
                 ELSE IF a.texto \cap Arrendamiento # {} THEN "arrendamiento"
                 ELSE IF cat(a) = "compras" THEN "bienes"
                 ELSE IF cat(a) = SinCategoria /\ a.cuenta \in 5000..5999 THEN "servicios" ELSE cat(a)
      dice == Primero(s, LAMBDA a : tipo(a) # SinCategoria)
      palabras == <<<<Arrendamiento, "arrendamiento">>, <<{"honorario", "asesor"}, "honorarios">>,
                    <<{"servicio", "vigilan"}, "servicios">>, <<{"mercanc", "insumo"}, "bienes">>>>
      oida == Primero(palabras, LAMBDA p : p[1] \cap doc.texto # {})
  IN IF dice # <<>> THEN tipo(dice[1])
     ELSE IF doc.tipo # "factura_compra" THEN "bienes" ELSE IF oida = <<>> THEN "servicios" ELSE oida[1][2]

EsIva(c) == c = 2408 \/ Starts(c, 240802) \/ Starts(c, 240805)
has_iva_in_asientos(s) ==
  LET l == Primero(s, LAMBDA a : EsIva(a.cuenta))
  IN [presente |-> l # <<>>, valor |-> IF l = <<>> THEN 0 ELSE l[1].valor]

----------------------------------------------------------------------------
(* What the document itself says *)

(* Base of the taxed items: by their marks, else by the IVA they carry when
   items with and without IVA are mixed; Nada leaves it to the asientos. *)
BaseDeItems(items) ==
  LET marcados == SumaSeq(items, LAMBDA it : IF it.marca = "gravado" THEN it.base ELSE 0)
      conIva == SumaSeq(items, LAMBDA it : IF it.iva > 0 THEN it.base ELSE 0)
      mezcla == \E i, j \in DOMAIN items : items[i].iva > 0 /\ items[j].iva = 0
  IN IF (\E i \in DOMAIN items : items[i].marca # "") /\ marcados > 0 THEN marcados
     ELSE IF mezcla /\ conIva > 0 THEN conIva ELSE Nada
extract_source_taxes(doc) ==
  [base |-> BaseDeItems(doc.items), total_iva |-> doc.total_iva,
   retenciones |-> doc.retenciones, aplicar |-> doc.aplicar]
RetencionDe(fuente, tipo) ==
  LET r == Primero(fuente.retenciones, LAMBDA x : x.tipo = tipo) IN IF r = <<>> THEN Nada ELSE r[1].valor

(* Liabilities are left out of the base; with no debit but to a liability the
   base is the total. *)
BaseGravable(s, fuente) ==
  LET neto(a) == a.mov = "debito" /\ ~Starts(a.cuenta, 2)
  IN IF fuente.base # Nada THEN fuente.base
     ELSE IF \E i \in DOMAIN s : neto(s[i]) THEN SumaSeq(s, LAMBDA a : IF neto(a) THEN a.valor ELSE 0)
     ELSE SumaMov(s, "debito")

----------------------------------------------------------------------------
(* What the tables say.  T is the record of the company's tables, s the row
   of its settings. *)

UVT_FALLBACK == 52374
BASE_MINIMA == [servicios |-> 4, bienes |-> 27, arrendamiento |-> 27, reteica |-> 4]
TASA_HONORARIOS == 1100

tasas_efectivas(T, s) ==
  LET ley == [servicios |-> s.servicios, bienes |-> s.bienes, arrendamiento |-> s.arrendamiento,
              honorarios |-> TASA_HONORARIOS]
  IN [k \in DOMAIN ley |-> Elegir(get_effective_rate(T.propias, T.nacionales, k, Nada), ley[k])]
Municipal(T, s, leer(_, _, _)) == IF s.ciudad = "" \/ s.seccion = "" THEN {} ELSE leer(T.reteicas, s.ciudad, s.seccion)
tasa_reteica(T, s) == Elegir(Municipal(T, s, get_reteica_tarifa), s.reteica)
uvt_efectiva(T) == Elegir(get_uvt(T.uvt, ANIO(Hoy)), UVT_FALLBACK)
(* Without a date any row of the year may answer: every choice is possible. *)
MinimasPosibles(T, s) ==
  LET de(c) == LET filas == get_base_minima(T.minimas, c, ANIO(Hoy), Nada)
               IN IF filas = {} THEN {BASE_MINIMA[c]} ELSE filas
      local == Municipal(T, s, get_reteica_base_minima_uvt)
  IN {[servicios |-> a, bienes |-> b, arrendamiento |-> c, reteica |-> d] :
        a \in de("servicios"), b \in de("bienes"), c \in de("arrendamiento"),
        d \in IF local = {} THEN de("reteica") ELSE local}

----------------------------------------------------------------------------
(* The amounts *)

(* Mutant: a sale suffers the withholding of the tables. *)
Retencion_Both(doc, fuente, tipo, base, minima, tasa) ==
  IF RetencionDe(fuente, tipo) # Nada THEN RetencionDe(fuente, tipo)
  ELSE IF ~fuente.aplicar \/ base < minima THEN 0 ELSE Tarifa(base, tasa)

(* The document's own figure, nothing on a sale, nothing when it says so or
   the base is below the minimum, else the tariff. *)
Retencion(doc, fuente, tipo, base, minima, tasa) ==
  IF RetencionDe(fuente, tipo) # Nada THEN RetencionDe(fuente, tipo)
  ELSE IF EsVenta(doc) \/ ~fuente.aplicar \/ base < minima THEN 0 ELSE Tarifa(base, tasa)
ValorIva(doc, fuente, s, asientos, base) ==
  LET visto == has_iva_in_asientos(asientos)
  IN IF visto.presente THEN visto.valor
     ELSE IF doc.tipo = "documento_soporte" \/ ~s.responsable THEN 0
     ELSE IF fuente.total_iva # Nada THEN fuente.total_iva ELSE Tarifa(base, s.iva)

Impuestos(T, s, doc, asientos, minimas) ==
  LET fuente == extract_source_taxes(doc)
      base == BaseGravable(asientos, fuente)
      tipo == detect_transaction_type(asientos, doc)
      minima(k) == IF k = "honorarios" THEN 0 ELSE minimas[k] * uvt_efectiva(T)
  IN [base |-> base, iva |-> ValorIva(doc, fuente, s, asientos, base),
      retefuente |-> Retencion(doc, fuente, "retefuente", base, minima(tipo), tasas_efectivas(T, s)[tipo]),
      reteica |-> Retencion(doc, fuente, "reteica", base, minima("reteica"), tasa_reteica(T, s))]

(* Taxes of the company's own list: those settled per document with their two
   lines, the periodic ones for the accumulators. *)
lineas_especiales(E, base) ==
  LET gasto(e) == [cuenta |-> e.cuenta_gasto, mov |-> "debito", valor |-> Tarifa(base, e.tasa), texto |-> {}]
      porPagar(e) == [gasto(e) EXCEPT !.cuenta = e.cuenta_por_pagar, !.mov = "credito"]
      porDocumento == SetToSeq({e \in E : ~e.periodico})
  IN [k \in 1..(2 * Len(porDocumento)) |->
        IF k % 2 = 1 THEN gasto(porDocumento[(k + 1) \div 2]) ELSE porPagar(porDocumento[k \div 2])]
acumular(A, E, base) ==
  FoldSet(LAMBDA e, acc : add_to_accumulator(acc, e.code, Hoy, base, Tarifa(base, e.tasa)), A, {e \in E : e.periodico})
apply_special_taxes(T, doc, base) ==
  LET tocan == {e \in list_active_special_taxes(T.especiales, doc.tipo, Hoy) :
                  (e.solo_publica => doc.publica) /\ Tarifa(base, e.tasa) > 0}
  IN [lineas |-> lineas_especiales(tocan, base), acumuladores |-> acumular(T.acumuladores, tocan, base)]

----------------------------------------------------------------------------
(* The entry with its taxes *)

Mayor(s, mov) ==
  LET suyos == {i \in DOMAIN s : s[i].mov = mov}
  IN IF suyos = {} THEN 0
     ELSE CHOOSE i \in suyos : /\ \A j \in suyos : s[j].valor <= s[i].valor
                               /\ \A j \in suyos : s[j].valor = s[i].valor => i <= j
LineaDe(par, valor) ==
  IF valor > 0 THEN <<[cuenta |-> par.cuenta, mov |-> par.mov, valor |-> valor, texto |-> {}]>> ELSE <<>>

(* Mutant: a credit note does not move the counterparty to the other side. *)
Objetivo_NoReversal(doc) == IF EsVenta(doc) THEN "debito" ELSE "credito"

(* The side of the counterparty, customer or supplier. *)
Objetivo(doc) ==
  IF EsReverso(doc) THEN Otro(IF EsVenta(doc) THEN "debito" ELSE "credito")
                    ELSE IF EsVenta(doc) THEN "debito" ELSE "credito"

(* The IVA that goes to the counterparty's line, the largest of its side: of a
   sale only what has no line yet. *)
IvaDeContraparte(asientos, doc, iva) ==
  IF EsVenta(doc) /\ has_iva_in_asientos(asientos).presente THEN 0 ELSE iva
IvaIncluido(asientos, doc, base, iva) ==
  LET i == Mayor(asientos, Objetivo(doc))
      brutos == (IF base > 0 THEN {base + iva} ELSE {}) \cup (IF doc.total > 0 THEN {doc.total} ELSE {})
  IN iva > 0 /\ i # 0 /\ asientos[i].valor > 0 /\ asientos[i].valor \in brutos

(* Mutant: the IVA the counterparty line already holds is not taken out. *)
SinIvaIncluido_Keep(asientos, doc, base, iva) == asientos

(* The counterparty line may already hold the IVA: it is taken out first. *)
SinIvaIncluido(asientos, doc, base, iva) ==
  IF IvaIncluido(asientos, doc, base, iva)
  THEN [asientos EXCEPT ![Mayor(asientos, Objetivo(doc))].valor = @ - iva] ELSE asientos

(* <<>> stands for the error: the counterparty line cannot bear the taxes. *)
enriquecer(asientos, doc, imp, cuentas) ==
  LET visto == has_iva_in_asientos(asientos).presente
      iva == IvaDeContraparte(asientos, doc, imp.iva)
      retenido == imp.retefuente + imp.reteica
      neta == SinIvaIncluido(asientos, doc, imp.base, iva)
      i == IF retenido > 0 \/ iva > 0 THEN Mayor(neta, Objetivo(doc)) ELSE 0
      ajustada == IF i = 0 THEN neta ELSE [neta EXCEPT ![i].valor = @ + iva - retenido]
  IN IF i # 0 /\ ajustada[i].valor < 0 THEN <<>>
     ELSE ajustada \o LineaDe(cuentas.iva, IF visto THEN 0 ELSE imp.iva)
            \o LineaDe(cuentas.retefuente, imp.retefuente) \o LineaDe(cuentas.reteica, imp.reteica)

TIPOS_SIN_IMPUESTO ==
  {"declaracion_iva", "declaracion_ica", "autorretencion_ica", "recibo_pago_impuesto", "declaracion_reteica",
   "anexo_tributario", "auxiliar_impuesto", "auxiliar_iva", "anexo_iva", "nomina", "planilla_seguridad_social",
   "comprobante_egreso", "conciliacion_bancaria", "extracto_bancario", "libro_diario", "nota_ajuste_contable"}
SinImpuestos(doc) ==
  \/ doc.tipo \in TIPOS_SIN_IMPUESTO
  \/ doc.tipo = "recibo_caja" /\ ~doc.directa
  \/ doc.prearmado # <<>>

Salida(base, iva, retefuente, reteica) ==
  [base |-> base, iva |-> iva, retefuente |-> retefuente, reteica |-> reteica]

SinCambios(T, asientos, error) ==
  [error |-> error, asientos |-> asientos, acumuladores |-> T.acumuladores, salida |-> Salida(Nada, 0, 0, 0)]
Gravada(nueva, imp, extra) ==
  [error |-> FALSE, asientos |-> nueva \o extra.lineas, acumuladores |-> extra.acumuladores,
   salida |-> Salida(imp.base, imp.iva, imp.retefuente, imp.reteica)]
(* The special taxes are booked only on an entry that bears the others. *)
gravar(T, s, doc, asientos, imp) ==
  IF enriquecer(asientos, doc, imp, CuentasDe(doc, s)) = <<>> THEN SinCambios(T, asientos, TRUE)
  ELSE Gravada(enriquecer(asientos, doc, imp, CuentasDe(doc, s)), imp, apply_special_taxes(T, doc, imp.base))

(* One run of the agent: the asientos it hands on, the taxes it reports and
   the accumulators it leaves; error when the company has no settings or the
   entry cannot be balanced. *)
tributario_node(T, nit, doc, asientos, minimas) ==
  LET filas == get_company_settings(T.settings, nit)
      propia(r) == [r EXCEPT !.cuenta_ica_propio = get_cuenta_ica_propio(T.settings, nit)]
      de(s) == gravar(T, s, doc, asientos, Impuestos(T, s, doc, asientos, minimas))
  IN CASE SinImpuestos(doc) -> SinCambios(T, asientos, FALSE)
       [] ~SinImpuestos(doc) /\ filas = {} -> SinCambios(T, asientos, TRUE)
       [] OTHER -> de(propia(CHOOSE r \in filas : TRUE))

(* Income tax provision of a period, over the lines of one third party. *)
calc_provision_renta(utilidad, tasa) == IF utilidad <= 0 THEN 0 ELSE Tarifa(utilidad, tasa)
calc_period_renta_provision(L, nit, ini, fin, tasa) ==
  LET en == {l \in get_daily_journal(L, ini, fin) : nit = Nada \/ l.tercero = nit}
  IN calc_provision_renta(Creditos(ConPrefijo(en, 4)) - Debitos(ConPrefijo(en, 5)) - Debitos(ConPrefijo(en, 6)), tasa)
=============================================================================
