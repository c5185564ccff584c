------------------------------- MODULE Models -------------------------------
(***************************************************************************)
(* The schema the program needs: for each class of the object model in     *)
(* src/app/models/database.py its table, its columns and the unique        *)
(* constraints that queries rely on, and the labels of its enum types      *)
(* (SQLAlchemy stores the names of the members, not their values).         *)
(***************************************************************************)
EXTENDS Revisions

Columns(t, names) == {t} \X (Table \cup names)

TransactionStatus ==
    {"transactionstatus"} \X {"PENDING", "PROCESSING", "POSTED", "REJECTED",
                              "ERROR"}
ProcessStatus ==
    {"processstatus"} \X {"QUEUED", "RUNNING", "COMPLETED", "FAILED",
                          "CANCELLED", "PENDING_AUDIT_REVIEW"}
IngestStatus ==
    {"ingeststatus"} \X {"PENDING_PROCESSING", "PENDING_REVIEW", "PROCESSING",
                         "COMPLETED", "FAILED", "CANCELLED"}
TerceroTipo == {"tercerotipo"} \X {"PROVEEDOR", "CLIENTE", "AMBOS"}
NaturalezaCuenta == {"naturalezacuenta"} \X {"DEBITO", "CREDITO"}

CompanySettings ==
    Columns("company_settings", Stamps \cup {"nit", "nombre", "ciudad",
        "codigo_ciiu", "iva_responsable", "es_declarante",
        "tasa_retefuente_servicios", "tasa_retefuente_bienes",
        "tasa_retefuente_arrendamiento", "tasa_reteica", "tasa_iva_general",
        "tasa_ica", "tasa_renta", "locked_pathway", "cuenta_ica_propio",
        "regimen_tributario", "actividad_economica"})

TarifaRenta ==
    Columns("tarifas_renta", Stamps \cup {"id", "regimen", "actividad",
        "tarifa_base", "sobretasa", "year_from", "year_to", "base_legal",
        "notas", "uq_tarifas_renta_key"})

ReteicaTarifa ==
    Columns("reteica_tarifas", {"id", "municipio", "ciiu_seccion", "tasa",
        "fuente", "base_minima_uvt", "created_at"})

Tercero ==
    Columns("terceros", Stamps \cup {"id", "nit", "razon_social", "tipo",
        "actividad_economica", "direccion", "telefono", "email",
        "ix_terceros_nit"})

CuentaPUC ==
    Columns("cuentas_puc", {"id", "codigo", "nombre", "clase", "grupo",
        "cuenta", "subcuenta", "naturaleza", "descripcion", "activa",
        "created_at", "deleted_at", "ix_cuentas_puc_codigo"})

IngestJob ==
    Columns("ingest_jobs", {"id", "file_name", "file_path", "file_names",
        "multi_file_mode", "current_file_index", "status", "document_type",
        "pathway", "classification_confirmed", "classification_confidence",
        "company_nit", "parser_mode", "raw_preview", "extraction_errors",
        "created_at", "completed_at"})

IngestFile ==
    Columns("ingest_files", {"id", "ingest_id", "file_name", "content",
        "created_at"})

ParseCache ==
    Columns("parse_cache", {"content_sha256", "parser_mode", "raw_text",
        "created_at"})

TransactionPending ==
    Columns("transactions_pending", Stamps \cup {"id", "ingest_id",
        "fecha", "company_nit", "nit_emisor", "nit_receptor", "total",
        "descripcion", "items", "raw_data", "source_file", "status"})

TransactionPosted ==
    Columns("transactions_posted", Stamps \cup {"id",
        "transaction_pending_id", "company_nit", "cuenta_puc",
        "puc_descripcion", "retefuente", "reteica", "iva", "ica",
        "provision_renta", "neto_a_pagar", "tipo_iva", "concepto_retencion",
        "tipo_persona_emisor", "journal_entries_json", "tax_references",
        "agent_reasoning", "status", "deleted_at"})

JournalEntryLine ==
    Columns("journal_entry_lines", {"id", "transaction_posted_id",
        "fecha", "company_nit", "comprobante", "cuenta_puc", "cuenta_nombre",
        "tercero_nit", "descripcion", "debito", "credito", "created_at"})

ProcessJob ==
    Columns("process_jobs", {"id", "ingest_id", "status", "current_stage",
        "current_agent", "progress", "error_message", "agent_log",
        "created_at", "started_at", "completed_at"})

AuditLog ==
    Columns("audit_logs", {"id", "action", "entity_id", "entity_type",
        "company_nit", "details", "created_by", "created_at"})

FinancialStatement ==
    Columns("financial_statements", {"id", "ingest_id", "statement_type",
        "period_start", "period_end", "entity_nit", "source_mode",
        "frequency", "data", "created_at"})

FinancialStatementLineage ==
    Columns("financial_statement_lineage", {"id", "target_statement_id",
        "source_statement_id", "relation_type", "created_at"})

VectorDocument ==
    Columns("vector_documents", {"id", "collection_name", "content",
        "metadata", "created_at"})

ChatSession ==
    Columns("chat_sessions", Stamps \cup {"id", "company_nit", "title",
        "deleted_at"})

ChatMessageRecord ==
    Columns("chat_messages", {"id", "session_id", "role", "content",
        "data_cards", "intent", "sources", "reasoning", "created_at"})

TaxDeclarationDraft ==
    Columns("tax_declaration_drafts", Stamps \cup {"id", "company_nit",
        "form_type", "period_start", "period_end", "year", "status",
        "fields_json", "warnings_json", "reviewed_by", "reviewed_at",
        "filed_by", "filed_at", "dian_acknowledgment", "reopened_at",
        "reopened_by", "reopen_reason"})

UvtValue ==
    Columns("uvt_values", Stamps \cup {"year", "value",
        "referencia_normativa", "effective_from", "effective_to"})

TaxBaseMinima ==
    Columns("tax_base_minima", Stamps \cup {"id", "concepto", "uvt_units",
        "year", "effective_from", "effective_to"})

TaxConcept ==
    Columns("tax_concepts", Stamps \cup {"code", "label", "renglon_350",
        "aplica_a", "tarifa_default", "base_minima_uvt", "categoria",
        "art_referencia", "activo"})

NationalRate ==
    Columns("national_rates", {"code", "value", "descripcion",
        "norma_referencia", "vigente_desde", "vigente_hasta", "updated_at"})

PerdidaFiscalAcumulada ==
    Columns("perdidas_fiscales_acumuladas", Stamps \cup {"id",
        "company_nit", "year", "monto_perdida", "monto_compensado",
        "monto_pendiente", "decreto", "notas"})

AjusteFiscal ==
    Columns("ajustes_fiscales", Stamps \cup {"id", "company_nit", "year",
        "seccion", "concepto", "valor_contable", "valor_fiscal",
        "tipo_diferencia", "descripcion",
        "ajustes_fiscales_nit_year_seccion_concepto_key"})

UserCompany ==
    Columns("user_company", {"user_id", "company_nit", "user_email",
        "joined_at", "deleted_at"})

CompanyPucConfig ==
    Columns("company_puc_config", {"company_nit", "cuenta_codigo",
        "is_active", "custom_nombre", "updated_at"})

CompanyRateOverride ==
    Columns("company_rate_overrides", {"company_nit", "rate_code",
        "value", "norma_referencia", "vigente_desde", "vigente_hasta",
        "updated_at"})

SpecialTax ==
    Columns("special_taxes", Stamps \cup {"id", "company_nit", "code",
        "nombre", "descripcion", "rate", "base_calc", "base_calc_formula",
        "applies_to_doc_types", "es_entidad_publica_only", "settlement",
        "cuenta_gasto", "cuenta_por_pagar", "norma_referencia",
        "vigente_desde", "vigente_hasta", "activo",
        "uq_special_taxes_nit_code"})

SpecialTaxAccumulator ==
    Columns("special_tax_accumulators", Stamps \cup {"id",
        "special_tax_id", "company_nit", "period_year", "period_month",
        "accumulated_base", "accumulated_tax", "liquidated", "liquidated_at",
        "uq_special_tax_accumulators_tax_period"})

Models ==
    UNION {TransactionStatus, ProcessStatus, IngestStatus, TerceroTipo,
           NaturalezaCuenta, CompanySettings, TarifaRenta, ReteicaTarifa,
           Tercero, CuentaPUC, IngestJob, IngestFile, ParseCache,
           TransactionPending, TransactionPosted, JournalEntryLine,
           ProcessJob, AuditLog, FinancialStatement,
           FinancialStatementLineage, VectorDocument, ChatSession,
           ChatMessageRecord, TaxDeclarationDraft, UvtValue,
           TaxBaseMinima, TaxConcept, NationalRate,
           PerdidaFiscalAcumulada, AjusteFiscal, UserCompany,
           CompanyPucConfig, CompanyRateOverride, SpecialTax,
           SpecialTaxAccumulator}
=============================================================================
