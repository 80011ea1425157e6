------------------------------ MODULE LspTypes ------------------------------
(***************************************************************************)
(* The messages of the Language Server Protocol as package lsp/protocol    *)
(* declares them: for each struct the JSON names and types of its fields,  *)
(* the ones with omitempty apart, for each "or" type its alternatives in   *)
(* the order in which UnmarshalJSON tries them.  Named string and integer  *)
(* types are their kind.  Module LspWire gives them their meaning.         *)
(***************************************************************************)
EXTENDS Naturals, Sequences

Str == [k |-> "str"]
Num == [k |-> "num"]
Bool == [k |-> "bool"]
AnyValue == [k |-> "any"]                   \* interface{}
Ptr(t) == [k |-> "ptr", of |-> t]
Arr(t) == [k |-> "arr", of |-> t]
Dict(t) == [k |-> "dict", of |-> t]         \* a map with string keys
Or(alts) == [k |-> "or", alts |-> alts]
\* The hand-written union: the presence of a key decides.
ByKey(key, with, without) == [k |-> "key", key |-> key, alts |-> <<with, without>>]
\* A struct, the fields with omitempty second.
Obj(required, optional) ==
    [k |-> "obj", omitempty |-> DOMAIN optional, hides |-> FALSE,
     fields |-> [n \in DOMAIN required \cup DOMAIN optional |->
                    IF n \in DOMAIN optional THEN optional[n] ELSE required[n]]]
\* A type inside its own definition, as far as it is looked into.
Self == Obj(<<>>, <<>>)
\* A struct with embedded structs, by the rules of encoding/json: its own fields
\* hide promoted ones, and of two promoted fields of one name none is left.
Embeds(structs, own) ==
    LET Has(n) == {i \in 1..Len(structs) : n \in DOMAIN structs[i].fields}
        Promoted == {n \in UNION {DOMAIN structs[i].fields : i \in 1..Len(structs)} :
                        \E i \in 1..Len(structs) : Has(n) = {i}}
        From(n) == CHOOSE i \in 1..Len(structs) : i \in Has(n)
    IN  [k |-> "obj",
         omitempty |-> own.omitempty \cup
             {n \in Promoted \ DOMAIN own.fields : n \in structs[From(n)].omitempty},
         hides |-> \E i, j \in 1..Len(structs) :
             i # j /\ DOMAIN structs[i].fields \cap DOMAIN structs[j].fields # {},
         fields |-> [n \in Promoted \cup DOMAIN own.fields |->
             IF n \in DOMAIN own.fields THEN own.fields[n] ELSE structs[From(n)].fields[n]]]
-----------------------------------------------------------------------------
Position == Obj([line |-> Num, character |-> Num], <<>>)
Range == Obj([start |-> Position, end |-> Position], <<>>)
TextEdit == Obj([range |-> Range, newText |-> Str], <<>>)
AnnotatedTextEdit == Embeds(<<TextEdit>>, Obj([annotationId |-> Str], <<>>))
TextDocumentIdentifier == Obj([uri |-> Str], <<>>)
OptionalVersionedTextDocumentIdentifier == Embeds(<<TextDocumentIdentifier>>, Obj([version |->
    Num], <<>>))
TextDocumentEdit == Obj([textDocument |-> OptionalVersionedTextDocumentIdentifier, edits |->
    Arr(TextEdit)], <<>>)
ResourceOperation == Obj([kind |-> Str], [annotationId |-> Ptr(Str)])
RenameFileOptions == Obj(<<>>, [overwrite |-> Bool, ignoreIfExists |-> Bool])
RenameFile == Embeds(<<ResourceOperation>>, Obj([kind |-> Str, oldUri |-> Str, newUri |-> Str],
    [options |-> Ptr(RenameFileOptions)]))
DocumentChanges == ByKey("textDocument", TextDocumentEdit, RenameFile)
ChangeAnnotation == Obj([label |-> Str], [needsConfirmation |-> Bool, description |-> Str])
WorkspaceEdit == Obj(<<>>, [changes |-> Dict(Arr(TextEdit)), documentChanges |->
    Arr(DocumentChanges), changeAnnotations |-> Dict(ChangeAnnotation)])
BaseSymbolInformation == Obj([name |-> Str, kind |-> Num], [tags |-> Arr(Num), containerName |->
    Str])
CallHierarchyItem == Obj([name |-> Str, kind |-> Num, uri |-> Str, range |-> Range, selectionRange
    |-> Range], [tags |-> Arr(Num), detail |-> Str, data |-> AnyValue])
CallHierarchyIncomingCall == Obj([from |-> CallHierarchyItem, fromRanges |-> Arr(Range)], <<>>)
CallHierarchyOutgoingCall == Obj([to |-> CallHierarchyItem, fromRanges |-> Arr(Range)], <<>>)
CodeDescription == Obj([href |-> Str], <<>>)
Location == Obj([uri |-> Str, range |-> Range], <<>>)
DiagnosticRelatedInformation == Obj([location |-> Location, message |-> Str], <<>>)
Diagnostic == Obj([range |-> Range, message |-> Str], [severity |-> Ptr(Num), code |-> AnyValue,
    codeDescription |-> Ptr(CodeDescription), source |-> Str, tags |-> Arr(Num),
    relatedInformation |-> Arr(DiagnosticRelatedInformation), data |-> Ptr(AnyValue)])
PDisabledMsg_textDocument_codeAction == Obj([reason |-> Str], <<>>)
Command == Obj([title |-> Str, command |-> Str], [arguments |-> Arr(AnyValue)])
CodeAction == Obj([title |-> Str], [kind |-> Ptr(Str), diagnostics |-> Arr(Diagnostic),
    isPreferred |-> Bool, disabled |-> Ptr(PDisabledMsg_textDocument_codeAction), edit |->
    Ptr(WorkspaceEdit), command |-> Ptr(Command), data |-> AnyValue])
CodeActionContext == Obj([diagnostics |-> Arr(Diagnostic)], [only |-> Arr(Str), triggerKind |->
    Ptr(Num)])
CodeLens == Obj([range |-> Range], [command |-> Ptr(Command), data |-> AnyValue])
Color == Obj([red |-> Num, green |-> Num, blue |-> Num, alpha |-> Num], <<>>)
ColorInformation == Obj([range |-> Range, color |-> Color], <<>>)
ColorPresentation == Obj([label |-> Str], [textEdit |-> Ptr(TextEdit), additionalTextEdits |->
    Arr(TextEdit)])
CompletionContext == Obj([triggerKind |-> Num], [triggerCharacter |-> Str])
CompletionItemLabelDetails == Obj(<<>>, [detail |-> Str, description |-> Str])
MarkupContent == Obj([kind |-> Str, value |-> Str], <<>>)
Or_CompletionItem_documentation == Or(<<MarkupContent, Str>>)
CompletionItem == Obj([label |-> Str], [labelDetails |-> Ptr(CompletionItemLabelDetails), kind |->
    Ptr(Num), tags |-> Arr(Num), detail |-> Str, documentation |->
    Ptr(Or_CompletionItem_documentation), deprecated |-> Bool, preselect |-> Bool, sortText |->
    Str, filterText |-> Str, insertText |-> Str, insertTextFormat |-> Ptr(Num), insertTextMode |->
    Ptr(Num), textEdit |-> Ptr(TextEdit), textEditText |-> Str, additionalTextEdits |->
    Arr(TextEdit), commitCharacters |-> Arr(Str), command |-> Ptr(Command), data |-> AnyValue])
FEditRangePItemDefaults == Obj([insert |-> Range, replace |-> Range], <<>>)
OrFEditRangePItemDefaults == Or(<<FEditRangePItemDefaults, Range>>)
PItemDefaultsMsg_textDocument_completion == Obj(<<>>, [commitCharacters |-> Arr(Str), editRange
    |-> Ptr(OrFEditRangePItemDefaults), insertTextFormat |-> Ptr(Num), insertTextMode |->
    Ptr(Num), data |-> AnyValue])
CompletionList == Obj([isIncomplete |-> Bool, items |-> Arr(CompletionItem)], [itemDefaults |->
    Ptr(PItemDefaultsMsg_textDocument_completion)])
ConfigurationItem == Obj(<<>>, [scopeUri |-> Str, section |-> Str])
CreateFileOptions == Obj(<<>>, [overwrite |-> Bool, ignoreIfExists |-> Bool])
CreateFile == Embeds(<<ResourceOperation>>, Obj([kind |-> Str, uri |-> Str], [options |->
    Ptr(CreateFileOptions)]))
FileCreate == Obj([uri |-> Str], <<>>)
DeleteFileOptions == Obj(<<>>, [recursive |-> Bool, ignoreIfNotExists |-> Bool])
DeleteFile == Embeds(<<ResourceOperation>>, Obj([kind |-> Str, uri |-> Str], [options |->
    Ptr(DeleteFileOptions)]))
FileDelete == Obj([uri |-> Str], <<>>)
DiagnosticServerCancellationData == Obj([retriggerRequest |-> Bool], <<>>)
VersionedNotebookDocumentIdentifier == Obj([version |-> Num, uri |-> Str], <<>>)
ExecutionSummary == Obj([executionOrder |-> Num], [success |-> Bool])
NotebookCell == Obj([kind |-> Num, document |-> Str], [metadata |-> Ptr(Dict(AnyValue)),
    executionSummary |-> Ptr(ExecutionSummary)])
NotebookCellArrayChange == Obj([start |-> Num, deleteCount |-> Num], [cells |->
    Arr(NotebookCell)])
TextDocumentItem == Obj([uri |-> Str, languageId |-> Str, version |-> Num, text |-> Str], <<>>)
FStructurePCells == Obj([array |-> NotebookCellArrayChange], [didOpen |-> Arr(TextDocumentItem),
    didClose |-> Arr(TextDocumentIdentifier)])
VersionedTextDocumentIdentifier == Embeds(<<TextDocumentIdentifier>>, Obj([version |-> Num],
    <<>>))
Msg_TextDocumentContentChangeEvent == Obj([range |-> Range, text |-> Str], [rangeLength |-> Num])
Lit_NotebookDocumentChangeEvent_cells_textContent_Elem == Obj([document |->
    VersionedTextDocumentIdentifier, changes |-> Arr(Msg_TextDocumentContentChangeEvent)], <<>>)
PCellsPChange == Obj(<<>>, [structure |-> Ptr(FStructurePCells), data |-> Arr(NotebookCell),
    textContent |-> Arr(Lit_NotebookDocumentChangeEvent_cells_textContent_Elem)])
NotebookDocumentChangeEvent == Obj(<<>>, [metadata |-> Ptr(Dict(AnyValue)), cells |->
    Ptr(PCellsPChange)])
FileEvent == Obj([uri |-> Str, type |-> Num], <<>>)
WorkspaceFolder == Obj([uri |-> Str, name |-> Str], <<>>)
WorkspaceFoldersChangeEvent == Obj([added |-> Arr(WorkspaceFolder), removed |->
    Arr(WorkspaceFolder)], <<>>)
NotebookDocumentIdentifier == Obj([uri |-> Str], <<>>)
NotebookDocument == Obj([uri |-> Str, notebookType |-> Str, version |-> Num, cells |->
    Arr(NotebookCell)], [metadata |-> Ptr(Dict(AnyValue))])
DocumentHighlight == Obj([range |-> Range], [kind |-> Ptr(Num)])
DocumentLink == Obj([range |-> Range], [target |-> Ptr(Str), tooltip |-> Str, data |-> AnyValue])
DocumentSymbol == Obj([name |-> Str, kind |-> Num, range |-> Range, selectionRange |-> Range],
    [detail |-> Str, tags |-> Arr(Num), deprecated |-> Bool, children |-> Arr(Self)])
FileRename == Obj([oldUri |-> Str, newUri |-> Str], <<>>)
FoldingRange == Obj([startLine |-> Num, endLine |-> Num], [startCharacter |-> Num, endCharacter
    |-> Num, kind |-> Str, collapsedText |-> Str])
FullDocumentDiagnosticReport == Obj([kind |-> Str, items |-> Arr(Diagnostic)], [resultId |-> Str])
Hover == Obj([contents |-> MarkupContent], [range |-> Ptr(Range)])
InitializeError == Obj([retry |-> Bool], <<>>)
Msg_XInitializeParams_clientInfo == Obj([name |-> Str], [version |-> Str])
PServerInfoMsg_initialize == Obj([name |-> Str], [version |-> Str])
OrPTooltipPLabel == Or(<<MarkupContent, Str>>)
InlayHintLabelPart == Obj([value |-> Str], [tooltip |-> Ptr(OrPTooltipPLabel), location |->
    Ptr(Location), command |-> Ptr(Command)])
OrPTooltip_textDocument_inlayHint == Or(<<MarkupContent, Str>>)
InlayHint == Obj([position |-> Position, label |-> Arr(InlayHintLabelPart)], [kind |-> Ptr(Num),
    textEdits |-> Arr(TextEdit), tooltip |-> Ptr(OrPTooltip_textDocument_inlayHint), paddingLeft
    |-> Bool, paddingRight |-> Bool, data |-> AnyValue])
SelectedCompletionInfo == Obj([range |-> Range, text |-> Str], <<>>)
InlineCompletionContext == Obj([triggerKind |-> Num], [selectedCompletionInfo |->
    Ptr(SelectedCompletionInfo)])
StringValue == Obj([kind |-> Str, value |-> Str], <<>>)
Or_InlineCompletionItem_insertText == Or(<<StringValue, Str>>)
InlineCompletionItem == Obj([insertText |-> Or_InlineCompletionItem_insertText], [filterText |->
    Str, range |-> Ptr(Range), command |-> Ptr(Command)])
InlineCompletionList == Obj([items |-> Arr(InlineCompletionItem)], <<>>)
InlineValueContext == Obj([frameId |-> Num, stoppedLocation |-> Range], <<>>)
InlineValueEvaluatableExpression == Obj([range |-> Range], [expression |-> Str])
InlineValueText == Obj([range |-> Range, text |-> Str], <<>>)
InlineValueVariableLookup == Obj([range |-> Range, caseSensitiveLookup |-> Bool], [variableName
    |-> Str])
InsertReplaceEdit == Obj([newText |-> Str, insert |-> Range, replace |-> Range], <<>>)
LinkedEditingRanges == Obj([ranges |-> Arr(Range)], [wordPattern |-> Str])
Lit_NotebookDocumentFilter_Item1 == Obj([scheme |-> Str], [notebookType |-> Str, pattern |-> Str])
Lit_NotebookDocumentFilter_Item2 == Obj([pattern |-> Str], [notebookType |-> Str, scheme |-> Str])
Lit_PrepareRenameResult_Item2 == Obj([defaultBehavior |-> Bool], <<>>)
Lit_TextDocumentContentChangeEvent_Item1 == Obj([text |-> Str], <<>>)
Lit_TextDocumentFilter_Item2 == Obj([pattern |-> Str], [language |-> Str, scheme |-> Str])
LocationLink == Obj([targetUri |-> Str, targetRange |-> Range, targetSelectionRange |-> Range],
    [originSelectionRange |-> Ptr(Range)])
MessageActionItem == Obj([title |-> Str], <<>>)
Moniker == Obj([scheme |-> Str, identifier |-> Str, unique |-> Str], [kind |-> Ptr(Str)])
Msg_MarkedString == Obj([language |-> Str, value |-> Str], <<>>)
Msg_PrepareRename2Gn == Obj([range |-> Range, placeholder |-> Str], <<>>)
PLocationMsg_workspace_symbol == Obj([uri |-> Str], <<>>)
PreviousResultID == Obj([uri |-> Str, value |-> Str], <<>>)
PreviousResultId == Obj([uri |-> Str, value |-> Str], <<>>)
ReferenceContext == Obj([includeDeclaration |-> Bool], <<>>)
Registration == Obj([id |-> Str, method |-> Str], [registerOptions |-> AnyValue])
RelatedFullDocumentDiagnosticReport == Embeds(<<FullDocumentDiagnosticReport>>, Obj(<<>>,
    [relatedDocuments |-> Dict(AnyValue)]))
UnchangedDocumentDiagnosticReport == Obj([kind |-> Str, resultId |-> Str], <<>>)
RelatedUnchangedDocumentDiagnosticReport == Embeds(<<UnchangedDocumentDiagnosticReport>>,
    Obj(<<>>, [relatedDocuments |-> Dict(AnyValue)]))
Or_RelativePattern_baseUri == Or(<<Str, WorkspaceFolder>>)
RelativePattern == Obj([baseUri |-> Or_RelativePattern_baseUri, pattern |-> Str], <<>>)
SelectionRange == Obj([range |-> Range], [parent |-> Ptr(Self)])
SemanticTokens == Obj([data |-> Arr(Num)], [resultId |-> Str])
SemanticTokensEdit == Obj([start |-> Num, deleteCount |-> Num], [data |-> Arr(Num)])
SemanticTokensDelta == Obj([edits |-> Arr(SemanticTokensEdit)], [resultId |-> Str])
Or_SignatureInformation_documentation == Or(<<MarkupContent, Str>>)
SymbolInformation == Obj([location |-> Location, name |-> Str, kind |-> Num], [deprecated |->
    Bool, tags |-> Arr(Num), containerName |-> Str])
TypeHierarchyItem == Obj([name |-> Str, kind |-> Num, uri |-> Str, range |-> Range, selectionRange
    |-> Range], [tags |-> Arr(Num), detail |-> Str, data |-> AnyValue])
UIntCommaUInt == Obj([fld0 |-> Num, fld1 |-> Num], <<>>)
Unregistration == Obj([id |-> Str, method |-> Str], <<>>)
WorkDoneProgressBegin == Obj([kind |-> Str, title |-> Str], [cancellable |-> Bool, message |->
    Str, percentage |-> Num])
WorkDoneProgressEnd == Obj([kind |-> Str], [message |-> Str])
WorkDoneProgressReport == Obj([kind |-> Str], [cancellable |-> Bool, message |-> Str, percentage
    |-> Num])
WorkspaceFullDocumentDiagnosticReport == Embeds(<<FullDocumentDiagnosticReport>>, Obj([uri |->
    Str, version |-> Num], <<>>))
WorkspaceUnchangedDocumentDiagnosticReport == Embeds(<<UnchangedDocumentDiagnosticReport>>,
    Obj([uri |-> Str, version |-> Num], <<>>))
Or_WorkspaceDocumentDiagnosticReport == Or(<<WorkspaceFullDocumentDiagnosticReport,
    WorkspaceUnchangedDocumentDiagnosticReport>>)
WorkspaceDiagnosticReport == Obj([items |-> Arr(Or_WorkspaceDocumentDiagnosticReport)], <<>>)
OrPLocation_workspace_symbol == Or(<<Location, PLocationMsg_workspace_symbol>>)
WorkspaceSymbol == Embeds(<<BaseSymbolInformation>>, Obj([location |->
    OrPLocation_workspace_symbol], [data |-> AnyValue]))
Or_CancelParams_id == Or(<<Num, Str>>)
Or_CompletionItem_textEdit == Or(<<InsertReplaceEdit, TextEdit>>)
Or_Definition == Or(<<Location, Arr(Location)>>)
Or_Diagnostic_code == Or(<<Num, Str>>)
Or_DocumentDiagnosticReport == Or(<<RelatedFullDocumentDiagnosticReport,
    RelatedUnchangedDocumentDiagnosticReport>>)
Or_DocumentDiagnosticReportPartialResult_relatedDocuments_Value ==
    Or(<<FullDocumentDiagnosticReport, UnchangedDocumentDiagnosticReport>>)
Or_MarkedString == Or(<<Msg_MarkedString, Str>>)
Or_Hover_contents == Or(<<Or_MarkedString, MarkupContent, Arr(Or_MarkedString)>>)
Or_InlayHint_label == Or(<<Arr(InlayHintLabelPart), Str>>)
Or_InlineValue == Or(<<InlineValueEvaluatableExpression, InlineValueText,
    InlineValueVariableLookup>>)
Or_RelatedFullDocumentDiagnosticReport_relatedDocuments_Value ==
    Or(<<FullDocumentDiagnosticReport, UnchangedDocumentDiagnosticReport>>)
Or_RelatedUnchangedDocumentDiagnosticReport_relatedDocuments_Value ==
    Or(<<FullDocumentDiagnosticReport, UnchangedDocumentDiagnosticReport>>)
Or_Result_textDocument_codeAction_Item0_Elem == Or(<<CodeAction, Command>>)
Or_Result_textDocument_inlineCompletion == Or(<<InlineCompletionList, Arr(InlineCompletionItem)>>)
Or_TextDocumentEdit_edits_Elem == Or(<<AnnotatedTextEdit, TextEdit>>)
Or_WorkspaceEdit_documentChanges_Elem == Or(<<CreateFile, DeleteFile, RenameFile,
    TextDocumentEdit>>)
Or_textDocument_declaration == Or(<<Arr(Location), Arr(LocationLink)>>)

\* The structs of this module.
DataStructs == <<Position, Range, TextEdit, AnnotatedTextEdit, TextDocumentIdentifier,
    OptionalVersionedTextDocumentIdentifier, TextDocumentEdit, ResourceOperation,
    RenameFileOptions, RenameFile, ChangeAnnotation, WorkspaceEdit, BaseSymbolInformation,
    CallHierarchyItem, CallHierarchyIncomingCall, CallHierarchyOutgoingCall, CodeDescription,
    Location, DiagnosticRelatedInformation, Diagnostic, PDisabledMsg_textDocument_codeAction,
    Command, CodeAction, CodeActionContext, CodeLens, Color, ColorInformation,
    ColorPresentation, CompletionContext, CompletionItemLabelDetails, MarkupContent,
    CompletionItem, FEditRangePItemDefaults, PItemDefaultsMsg_textDocument_completion,
    CompletionList, ConfigurationItem, CreateFileOptions, CreateFile, FileCreate,
    DeleteFileOptions, DeleteFile, FileDelete, DiagnosticServerCancellationData,
    VersionedNotebookDocumentIdentifier, ExecutionSummary, NotebookCell,
    NotebookCellArrayChange, TextDocumentItem, FStructurePCells,
    VersionedTextDocumentIdentifier, Msg_TextDocumentContentChangeEvent,
    Lit_NotebookDocumentChangeEvent_cells_textContent_Elem, PCellsPChange,
    NotebookDocumentChangeEvent, FileEvent, WorkspaceFolder, WorkspaceFoldersChangeEvent,
    NotebookDocumentIdentifier, NotebookDocument, DocumentHighlight, DocumentLink,
    DocumentSymbol, FileRename, FoldingRange, FullDocumentDiagnosticReport, Hover,
    InitializeError, Msg_XInitializeParams_clientInfo, PServerInfoMsg_initialize,
    InlayHintLabelPart, InlayHint, SelectedCompletionInfo, InlineCompletionContext, StringValue,
    InlineCompletionItem, InlineCompletionList, InlineValueContext,
    InlineValueEvaluatableExpression, InlineValueText, InlineValueVariableLookup,
    InsertReplaceEdit, LinkedEditingRanges, Lit_NotebookDocumentFilter_Item1,
    Lit_NotebookDocumentFilter_Item2, Lit_PrepareRenameResult_Item2,
    Lit_TextDocumentContentChangeEvent_Item1, Lit_TextDocumentFilter_Item2, LocationLink,
    MessageActionItem, Moniker, Msg_MarkedString, Msg_PrepareRename2Gn,
    PLocationMsg_workspace_symbol, PreviousResultID, PreviousResultId, ReferenceContext,
    Registration, RelatedFullDocumentDiagnosticReport, UnchangedDocumentDiagnosticReport,
    RelatedUnchangedDocumentDiagnosticReport, RelativePattern, SelectionRange, SemanticTokens,
    SemanticTokensEdit, SemanticTokensDelta, SymbolInformation, TypeHierarchyItem,
    UIntCommaUInt, Unregistration, WorkDoneProgressBegin, WorkDoneProgressEnd,
    WorkDoneProgressReport, WorkspaceFullDocumentDiagnosticReport,
    WorkspaceUnchangedDocumentDiagnosticReport, WorkspaceDiagnosticReport, WorkspaceSymbol>>
=============================================================================
