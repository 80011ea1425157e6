------------------------------- MODULE LspWire -------------------------------
(***************************************************************************)
(* What the types of LspTypes write to the wire and accept from it.        *)
(*                                                                         *)
(* A JSON value is its kind with its members; scalars other than Booleans  *)
(* have no content, an array is the set of its elements.  UnmarshalJSON of *)
(* a union tries the alternatives in turn and takes the first one that     *)
(* json.Unmarshal accepts, and a struct accepts every object whose known   *)
(* fields decode: what it does not know is dropped.                        *)
(***************************************************************************)
EXTENDS LspMessages

Structs == DataStructs \o ClientStructs \o ServerStructs \o MessageStructs

(* The union types of tsjson.go and tsdocument_changes.go.                 *)
Unions ==
    <<DocumentChanges, Or_CompletionItem_documentation, OrFEditRangePItemDefaults,
      OrPTooltipPLabel, OrPTooltip_textDocument_inlayHint, Or_InlineCompletionItem_insertText,
      Or_RelativePattern_baseUri, Or_SignatureInformation_documentation,
      Or_WorkspaceDocumentDiagnosticReport, OrPLocation_workspace_symbol, Or_CancelParams_id,
      Or_CompletionItem_textEdit, Or_Definition, Or_Diagnostic_code,
      Or_DocumentDiagnosticReport,
      Or_DocumentDiagnosticReportPartialResult_relatedDocuments_Value, Or_MarkedString,
      Or_Hover_contents, Or_InlayHint_label, Or_InlineValue,
      Or_RelatedFullDocumentDiagnosticReport_relatedDocuments_Value,
      Or_RelatedUnchangedDocumentDiagnosticReport_relatedDocuments_Value,
      Or_Result_textDocument_codeAction_Item0_Elem, Or_Result_textDocument_inlineCompletion,
      Or_TextDocumentEdit_edits_Elem, Or_WorkspaceEdit_documentChanges_Elem,
      Or_textDocument_declaration, Or_SemanticTokensClientCapabilities_requests_range,
      Or_SemanticTokensClientCapabilities_requests_full,
      Or_NotebookCellTextDocumentFilter_notebook, Or_DocumentFilter,
      OrPSection_workspace_didChangeConfiguration,
      Or_NotebookDocumentSyncOptions_notebookSelector_Elem_Item1_notebook,
      Or_NotebookDocumentSyncOptions_notebookSelector_Elem_Item0_notebook,
      Or_NotebookDocumentSyncOptions_notebookSelector_Elem,
      Or_ServerCapabilities_notebookDocumentSync, Or_ServerCapabilities_hoverProvider,
      Or_ServerCapabilities_declarationProvider, Or_ServerCapabilities_definitionProvider,
      Or_ServerCapabilities_typeDefinitionProvider,
      Or_ServerCapabilities_implementationProvider, Or_ServerCapabilities_referencesProvider,
      Or_ServerCapabilities_documentHighlightProvider,
      Or_ServerCapabilities_documentSymbolProvider, Or_ServerCapabilities_colorProvider,
      Or_ServerCapabilities_workspaceSymbolProvider,
      Or_ServerCapabilities_documentFormattingProvider,
      Or_ServerCapabilities_documentRangeFormattingProvider,
      Or_ServerCapabilities_foldingRangeProvider, Or_ServerCapabilities_selectionRangeProvider,
      Or_ServerCapabilities_callHierarchyProvider,
      Or_ServerCapabilities_linkedEditingRangeProvider, Or_ServerCapabilities_monikerProvider,
      Or_ServerCapabilities_typeHierarchyProvider, Or_ServerCapabilities_inlineValueProvider,
      Or_ServerCapabilities_diagnosticProvider, Or_ServerCapabilities_inlineCompletionProvider,
      Or_WorkspaceFoldersServerCapabilities_changeNotifications, Or_SemanticTokensOptions_range,
      Or_SemanticTokensOptions_full, Or_ServerCapabilities_codeActionProvider,
      Or_ServerCapabilities_inlayHintProvider, Or_ServerCapabilities_renameProvider,
      Or_ServerCapabilities_semanticTokensProvider, Or_ServerCapabilities_textDocumentSync,
      Or_TextDocumentSyncOptions_save>>

Null == [k |-> "null"]

RECURSIVE Accepts(_, _)
Accepts(t, j) ==
    \/ j = Null
    \/ t.k = "any"
    \/ t.k \in {"str", "num", "bool"} /\ j.k = t.k
    \/ t.k = "ptr" /\ Accepts(t.of, j)
    \/ t.k = "arr" /\ j.k = "arr" /\ \A e \in j.elems : Accepts(t.of, e)
    \/ t.k = "dict" /\ j.k = "obj" /\ \A n \in DOMAIN j.fields : Accepts(t.of, j.fields[n])
    \/ /\ t.k = "obj" /\ j.k = "obj"
       /\ \A n \in DOMAIN j.fields \cap DOMAIN t.fields : Accepts(t.fields[n], j.fields[n])
    \/ t.k = "or" /\ \E i \in 1..Len(t.alts) : Accepts(t.alts[i], j)
    \/ /\ t.k = "key" /\ j.k = "obj"
       /\ Accepts(t.alts[IF t.key \in DOMAIN j.fields THEN 1 ELSE 2], j)

(* The alternative UnmarshalJSON of a union keeps for j (not null).        *)
FirstAccepting(alts, j) ==
    CHOOSE i \in 1..Len(alts) :
        Accepts(alts[i], j) /\ \A h \in 1..i - 1 : ~Accepts(alts[h], j)

Picks(u, j) ==
    IF u.k = "key" THEN IF u.key \in DOMAIN j.fields THEN 1 ELSE 2
    ELSE FirstAccepting(u.alts, j)

(* Whether decoding j as t keeps everything that j says.                   *)
RECURSIVE Keeps(_, _)
Keeps(t, j) ==
    \/ j = Null
    \/ t.k \in {"any", "str", "num", "bool"}
    \/ t.k = "ptr" /\ Keeps(t.of, j)
    \/ t.k = "arr" /\ \A e \in j.elems : Keeps(t.of, e)
    \/ t.k = "dict" /\ \A n \in DOMAIN j.fields : Keeps(t.of, j.fields[n])
    \/ /\ t.k = "obj" /\ DOMAIN j.fields \subseteq DOMAIN t.fields
       /\ \A n \in DOMAIN j.fields : Keeps(t.fields[n], j.fields[n])
    \/ t.k \in {"or", "key"} /\ Keeps(t.alts[Picks(t, j)], j)

(* What json.Marshal writes for a value of type t: the zero value, one     *)
(* with the required fields set, or one with all fields set, with the      *)
(* alternative number `alt` (or the last one) in its unions.  MarshalJSON  *)
(* of a union writes the alternative that Value is, and null for none.     *)
(* omitempty leaves out what is zero, but a struct is never empty.         *)
Modes == {"zero", "lean", "full"}
Alternatives == 1..4
WrittenAlt(t, alt) == t.alts[IF alt <= Len(t.alts) THEN alt ELSE Len(t.alts)]
RECURSIVE Writes(_, _, _)
Writes(t, mode, alt) ==
    CASE t.k \in {"str", "num"} -> [k |-> t.k]
      [] t.k = "bool" -> [k |-> "bool", v |-> mode # "zero"]
      [] t.k # "obj" /\ mode = "zero" -> Null
      [] t.k = "any" -> [k |-> "str"]
      [] t.k = "ptr" -> Writes(t.of, mode, alt)
      [] t.k = "arr" -> [k |-> "arr", elems |-> {Writes(t.of, mode, alt)}]
      [] t.k = "dict" -> [k |-> "obj", fields |-> [key |-> Writes(t.of, mode, alt)]]
      [] t.k \in {"or", "key"} -> Writes(WrittenAlt(t, alt), mode, alt)
      [] t.k = "obj" ->
           [k |-> "obj", fields |->
               [n \in IF mode = "full" THEN DOMAIN t.fields
                      ELSE {m \in DOMAIN t.fields :
                               m \notin t.omitempty \/ t.fields[m].k = "obj"} |->
                   Writes(t.fields[n], mode, alt)]]
-----------------------------------------------------------------------------
(* ServerCapabilities.Supports: the alternative kept for the provider of   *)
(* the method decides.                                                     *)
Provider == [declaration |-> Or_ServerCapabilities_declarationProvider,
             definition |-> Or_ServerCapabilities_definitionProvider,
             documentSymbol |-> Or_ServerCapabilities_documentSymbolProvider,
             symbol |-> Or_ServerCapabilities_workspaceSymbolProvider]

Supports(assumeWorks, t, j) ==
    assumeWorks \/ (j # Null /\ (t.alts[Picks(t, j)] = Bool => j.v))
-----------------------------------------------------------------------------
(* Properties, for a union or a struct                                     *)

(* The JSON kinds that a type is written as, and whether an alternative of *)
(* a union stands behind another one of its kind: a struct accepts any     *)
(* object whose fields of the same name decode, whatever else it has.      *)
RECURSIVE Kinds(_)
Kinds(t) ==
    CASE t.k = "ptr" -> Kinds(t.of)
      [] t.k \in {"or", "key"} -> UNION {Kinds(t.alts[i]) : i \in 1..Len(t.alts)}
      [] t.k \in {"obj", "dict"} -> {"obj"}
      [] OTHER -> {t.k}
Behind(u, i) == u.k = "or" /\ \E h \in 1..i - 1 : Kinds(u.alts[h]) \cap Kinds(u.alts[i]) # {}

RECURSIVE Ambiguous(_)
Ambiguous(t) ==
    CASE t.k \in {"ptr", "arr", "dict"} -> Ambiguous(t.of)
      [] t.k \in {"or", "key"} -> \E i \in 1..Len(t.alts) : Behind(t, i) \/ Ambiguous(t.alts[i])
      [] t.k = "obj" -> \E n \in DOMAIN t.fields : Ambiguous(t.fields[n])
      [] OTHER -> FALSE

(* What a union writes it accepts, and it reads back all of it, whichever  *)
(* alternative was written, unless that one is behind another of its kind. *)
UnionKeeps(u) ==
    \A i \in 1..Len(u.alts), m \in {"lean", "full"}, alt \in Alternatives :
        LET j == Writes(u.alts[i], m, alt)
        IN  Accepts(u, j) /\ (Keeps(u, j) \/ Behind(u, i) \/ (alt > 1 /\ Ambiguous(u.alts[i])))

(* Every message a struct writes is read back without a loss: no embedded  *)
(* field is hidden, and unions inside keep what they wrote                 *)
(* (tsprotocol.go, "they are exported for json marshaling"); of a union    *)
(* with alternatives of one kind that is said of the first one.            *)
StructKeeps(t) ==
    /\ ~t.hides
    /\ \A m \in Modes, alt \in Alternatives :
          LET j == Writes(t, m, alt)
          IN  Accepts(t, j) /\ (Keeps(t, j) \/ (alt > 1 /\ Ambiguous(t)))

(* An optional field that is not set is not written: omitempty does        *)
(* nothing for a field that is itself a struct, so none is.                *)
OptionalOmitted(t) == t.omitempty \cap DOMAIN Writes(t, "zero", 1).fields = {}

(* A server that says it supports a method, with a Boolean or with         *)
(* options of any shape, is found to; one that is silent or says false is  *)
(* not asked (extensions.go, "crash when given a method they do not        *)
(* support").                                                              *)
SupportsKept(t) ==
    /\ ~Supports(FALSE, t, Null) /\ Supports(TRUE, t, Null)
    /\ \A v \in BOOLEAN : Supports(FALSE, t, [k |-> "bool", v |-> v]) = v
    /\ \A i \in 1..Len(t.alts), m \in {"lean", "full"}, alt \in Alternatives :
          t.alts[i] # Bool => Supports(FALSE, t, Writes(t.alts[i], m, alt))
=============================================================================
