---------------------------- MODULE LspMessages -----------------------------
(***************************************************************************)
(* Parameters and results of the requests and notifications                *)
(* (lsp/protocol/tsprotocol.go), in the notation of LspTypes.              *)
(***************************************************************************)
EXTENDS LspClient, LspServer

ApplyWorkspaceEditParams == Obj([edit |-> WorkspaceEdit], [label |-> Str])
ApplyWorkspaceEditResult == Obj([applied |-> Bool], [failureReason |-> Str, failedChange |-> Num])
WorkDoneProgressParams == Obj(<<>>, [workDoneToken |-> Ptr(AnyValue)])
PartialResultParams == Obj(<<>>, [partialResultToken |-> Ptr(AnyValue)])
CallHierarchyIncomingCallsParams == Embeds(<<WorkDoneProgressParams, PartialResultParams>>,
    Obj([item |-> CallHierarchyItem], <<>>))
CallHierarchyOutgoingCallsParams == Embeds(<<WorkDoneProgressParams, PartialResultParams>>,
    Obj([item |-> CallHierarchyItem], <<>>))
TextDocumentPositionParams == Obj([textDocument |-> TextDocumentIdentifier, position |->
    Position], <<>>)
CallHierarchyPrepareParams == Embeds(<<TextDocumentPositionParams, WorkDoneProgressParams>>,
    Obj(<<>>, <<>>))
CancelParams == Obj([id |-> AnyValue], <<>>)
CodeActionParams == Embeds(<<WorkDoneProgressParams, PartialResultParams>>, Obj([textDocument |->
    TextDocumentIdentifier, range |-> Range, context |-> CodeActionContext], <<>>))
CodeLensParams == Embeds(<<WorkDoneProgressParams, PartialResultParams>>, Obj([textDocument |->
    TextDocumentIdentifier], <<>>))
ColorPresentationParams == Embeds(<<WorkDoneProgressParams, PartialResultParams>>,
    Obj([textDocument |-> TextDocumentIdentifier, color |-> Color, range |-> Range], <<>>))
CompletionParams == Embeds(<<TextDocumentPositionParams, WorkDoneProgressParams,
    PartialResultParams>>, Obj(<<>>, [context |-> Ptr(CompletionContext)]))
ConfigurationParams == Obj([items |-> Arr(ConfigurationItem)], <<>>)
CreateFilesParams == Obj([files |-> Arr(FileCreate)], <<>>)
DeclarationParams == Embeds(<<TextDocumentPositionParams, WorkDoneProgressParams,
    PartialResultParams>>, Obj(<<>>, <<>>))
DefinitionParams == Embeds(<<TextDocumentPositionParams, WorkDoneProgressParams,
    PartialResultParams>>, Obj(<<>>, <<>>))
DeleteFilesParams == Obj([files |-> Arr(FileDelete)], <<>>)
DidChangeConfigurationParams == Obj([settings |-> AnyValue], <<>>)
DidChangeNotebookDocumentParams == Obj([notebookDocument |-> VersionedNotebookDocumentIdentifier,
    change |-> NotebookDocumentChangeEvent], <<>>)
DidChangeTextDocumentParams == Obj([textDocument |-> VersionedTextDocumentIdentifier,
    contentChanges |-> Arr(Msg_TextDocumentContentChangeEvent)], <<>>)
DidChangeWatchedFilesParams == Obj([changes |-> Arr(FileEvent)], <<>>)
DidChangeWorkspaceFoldersParams == Obj([event |-> WorkspaceFoldersChangeEvent], <<>>)
DidCloseNotebookDocumentParams == Obj([notebookDocument |-> NotebookDocumentIdentifier,
    cellTextDocuments |-> Arr(TextDocumentIdentifier)], <<>>)
DidCloseTextDocumentParams == Obj([textDocument |-> TextDocumentIdentifier], <<>>)
DidOpenNotebookDocumentParams == Obj([notebookDocument |-> NotebookDocument, cellTextDocuments |->
    Arr(TextDocumentItem)], <<>>)
DidOpenTextDocumentParams == Obj([textDocument |-> TextDocumentItem], <<>>)
DidSaveNotebookDocumentParams == Obj([notebookDocument |-> NotebookDocumentIdentifier], <<>>)
DidSaveTextDocumentParams == Obj([textDocument |-> TextDocumentIdentifier], [text |-> Str])
DocumentColorParams == Embeds(<<WorkDoneProgressParams, PartialResultParams>>, Obj([textDocument
    |-> TextDocumentIdentifier], <<>>))
DocumentDiagnosticParams == Embeds(<<WorkDoneProgressParams, PartialResultParams>>,
    Obj([textDocument |-> TextDocumentIdentifier], [identifier |-> Str, previousResultId |->
    Str]))
DocumentDiagnosticReportPartialResult == Obj([relatedDocuments |-> Dict(AnyValue)], <<>>)
DocumentFormattingParams == Embeds(<<WorkDoneProgressParams>>, Obj([textDocument |->
    TextDocumentIdentifier, options |-> FormattingOptions], <<>>))
DocumentHighlightParams == Embeds(<<TextDocumentPositionParams, WorkDoneProgressParams,
    PartialResultParams>>, Obj(<<>>, <<>>))
DocumentLinkParams == Embeds(<<WorkDoneProgressParams, PartialResultParams>>, Obj([textDocument
    |-> TextDocumentIdentifier], <<>>))
DocumentOnTypeFormattingParams == Obj([textDocument |-> TextDocumentIdentifier, position |->
    Position, ch |-> Str, options |-> FormattingOptions], <<>>)
DocumentRangeFormattingParams == Embeds(<<WorkDoneProgressParams>>, Obj([textDocument |->
    TextDocumentIdentifier, range |-> Range, options |-> FormattingOptions], <<>>))
DocumentRangesFormattingParams == Embeds(<<WorkDoneProgressParams>>, Obj([textDocument |->
    TextDocumentIdentifier, ranges |-> Arr(Range), options |-> FormattingOptions], <<>>))
DocumentSymbolParams == Embeds(<<WorkDoneProgressParams, PartialResultParams>>, Obj([textDocument
    |-> TextDocumentIdentifier], <<>>))
ExecuteCommandParams == Embeds(<<WorkDoneProgressParams>>, Obj([command |-> Str], [arguments |->
    Arr(AnyValue)]))
FoldingRangeParams == Embeds(<<WorkDoneProgressParams, PartialResultParams>>, Obj([textDocument
    |-> TextDocumentIdentifier], <<>>))
HoverParams == Embeds(<<TextDocumentPositionParams, WorkDoneProgressParams>>, Obj(<<>>, <<>>))
ImplementationParams == Embeds(<<TextDocumentPositionParams, WorkDoneProgressParams,
    PartialResultParams>>, Obj(<<>>, <<>>))
XInitializeParams == Embeds(<<WorkDoneProgressParams>>, Obj([processId |-> Num, rootUri |-> Str,
    capabilities |-> ClientCapabilities, extendedClientCapabilities |-> Dict(AnyValue)], [clientInfo
    |-> Ptr(Msg_XInitializeParams_clientInfo), locale |-> Str, rootPath |-> Str,
    initializationOptions |-> AnyValue, trace |-> Ptr(Str)]))
WorkspaceFoldersInitializeParams == Obj(<<>>, [workspaceFolders |-> Arr(WorkspaceFolder)])
InitializeParams == Embeds(<<XInitializeParams, WorkspaceFoldersInitializeParams>>, Obj(<<>>,
    <<>>))
InitializeResult == Obj([capabilities |-> ServerCapabilities], [serverInfo |->
    Ptr(PServerInfoMsg_initialize)])
InitializedParams == Obj(<<>>, <<>>)
InlayHintParams == Embeds(<<WorkDoneProgressParams>>, Obj([textDocument |->
    TextDocumentIdentifier, range |-> Range], <<>>))
InlineCompletionParams == Embeds(<<TextDocumentPositionParams, WorkDoneProgressParams>>,
    Obj([context |-> InlineCompletionContext], <<>>))
InlineValueParams == Embeds(<<WorkDoneProgressParams>>, Obj([textDocument |->
    TextDocumentIdentifier, range |-> Range, context |-> InlineValueContext], <<>>))
LinkedEditingRangeParams == Embeds(<<TextDocumentPositionParams, WorkDoneProgressParams>>,
    Obj(<<>>, <<>>))
LogMessageParams == Obj([type |-> Num, message |-> Str], <<>>)
LogTraceParams == Obj([message |-> Str], [verbose |-> Str])
MonikerParams == Embeds(<<TextDocumentPositionParams, WorkDoneProgressParams,
    PartialResultParams>>, Obj(<<>>, <<>>))
ParamConfiguration == Obj([items |-> Arr(ConfigurationItem)], <<>>)
ParamInitialize == Embeds(<<XInitializeParams, WorkspaceFoldersInitializeParams>>, Obj(<<>>,
    <<>>))
ParameterInformation == Obj([label |-> Str], [documentation |-> Str])
PrepareRenameParams == Embeds(<<TextDocumentPositionParams, WorkDoneProgressParams>>, Obj(<<>>,
    <<>>))
ProgressParams == Obj([token |-> AnyValue, value |-> AnyValue], <<>>)
PublishDiagnosticsParams == Obj([uri |-> Str, diagnostics |-> Arr(Diagnostic)], [version |-> Num])
ReferenceParams == Embeds(<<TextDocumentPositionParams, WorkDoneProgressParams,
    PartialResultParams>>, Obj([context |-> ReferenceContext], <<>>))
RegistrationParams == Obj([registrations |-> Arr(Registration)], <<>>)
RenameFilesParams == Obj([files |-> Arr(FileRename)], <<>>)
RenameParams == Embeds(<<WorkDoneProgressParams>>, Obj([textDocument |-> TextDocumentIdentifier,
    position |-> Position, newName |-> Str], <<>>))
SelectionRangeParams == Embeds(<<WorkDoneProgressParams, PartialResultParams>>, Obj([textDocument
    |-> TextDocumentIdentifier, positions |-> Arr(Position)], <<>>))
SemanticTokensDeltaParams == Embeds(<<WorkDoneProgressParams, PartialResultParams>>,
    Obj([textDocument |-> TextDocumentIdentifier, previousResultId |-> Str], <<>>))
SemanticTokensDeltaPartialResult == Obj([edits |-> Arr(SemanticTokensEdit)], <<>>)
SemanticTokensParams == Embeds(<<WorkDoneProgressParams, PartialResultParams>>, Obj([textDocument
    |-> TextDocumentIdentifier], <<>>))
SemanticTokensPartialResult == Obj([data |-> Arr(Num)], <<>>)
SemanticTokensRangeParams == Embeds(<<WorkDoneProgressParams, PartialResultParams>>,
    Obj([textDocument |-> TextDocumentIdentifier, range |-> Range], <<>>))
SetTraceParams == Obj([value |-> Str], <<>>)
ShowDocumentParams == Obj([uri |-> Str], [external |-> Bool, takeFocus |-> Bool, selection |->
    Ptr(Range)])
ShowDocumentResult == Obj([success |-> Bool], <<>>)
ShowMessageParams == Obj([type |-> Num, message |-> Str], <<>>)
ShowMessageRequestParams == Obj([type |-> Num, message |-> Str], [actions |->
    Arr(MessageActionItem)])
SignatureInformation == Obj([label |-> Str], [documentation |->
    Ptr(Or_SignatureInformation_documentation), parameters |-> Arr(ParameterInformation),
    activeParameter |-> Num])
SignatureHelp == Obj([signatures |-> Arr(SignatureInformation)], [activeSignature |-> Num,
    activeParameter |-> Num])
SignatureHelpContext == Obj([triggerKind |-> Num, isRetrigger |-> Bool], [triggerCharacter |->
    Str, activeSignatureHelp |-> Ptr(SignatureHelp)])
SignatureHelpParams == Embeds(<<TextDocumentPositionParams, WorkDoneProgressParams>>, Obj(<<>>,
    [context |-> Ptr(SignatureHelpContext)]))
TypeDefinitionParams == Embeds(<<TextDocumentPositionParams, WorkDoneProgressParams,
    PartialResultParams>>, Obj(<<>>, <<>>))
TypeHierarchyPrepareParams == Embeds(<<TextDocumentPositionParams, WorkDoneProgressParams>>,
    Obj(<<>>, <<>>))
TypeHierarchySubtypesParams == Embeds(<<WorkDoneProgressParams, PartialResultParams>>, Obj([item
    |-> TypeHierarchyItem], <<>>))
TypeHierarchySupertypesParams == Embeds(<<WorkDoneProgressParams, PartialResultParams>>, Obj([item
    |-> TypeHierarchyItem], <<>>))
UnregistrationParams == Obj([unregisterations |-> Arr(Unregistration)], <<>>)
WillSaveTextDocumentParams == Obj([textDocument |-> TextDocumentIdentifier, reason |-> Num], <<>>)
WorkDoneProgressCancelParams == Obj([token |-> AnyValue], <<>>)
WorkDoneProgressCreateParams == Obj([token |-> AnyValue], <<>>)
WorkspaceDiagnosticParams == Embeds(<<WorkDoneProgressParams, PartialResultParams>>,
    Obj([previousResultIds |-> Arr(PreviousResultID)], [identifier |-> Str]))
WorkspaceDiagnosticReportPartialResult == Obj([items |->
    Arr(Or_WorkspaceDocumentDiagnosticReport)], <<>>)
WorkspaceSymbolParams == Embeds(<<WorkDoneProgressParams, PartialResultParams>>, Obj([query |->
    Str], <<>>))
_InitializeParams == Embeds(<<WorkDoneProgressParams>>, Obj([processId |-> Num, rootUri |-> Str,
    capabilities |-> ClientCapabilities], [clientInfo |-> Ptr(Msg_XInitializeParams_clientInfo),
    locale |-> Str, rootPath |-> Str, initializationOptions |-> AnyValue, trace |-> Ptr(Str)]))

\* The structs of this module.
MessageStructs == <<ApplyWorkspaceEditParams, ApplyWorkspaceEditResult, WorkDoneProgressParams,
    PartialResultParams, CallHierarchyIncomingCallsParams, CallHierarchyOutgoingCallsParams,
    TextDocumentPositionParams, CallHierarchyPrepareParams, CancelParams, CodeActionParams,
    CodeLensParams, ColorPresentationParams, CompletionParams, ConfigurationParams,
    CreateFilesParams, DeclarationParams, DefinitionParams, DeleteFilesParams,
    DidChangeConfigurationParams, DidChangeNotebookDocumentParams, DidChangeTextDocumentParams,
    DidChangeWatchedFilesParams, DidChangeWorkspaceFoldersParams,
    DidCloseNotebookDocumentParams, DidCloseTextDocumentParams, DidOpenNotebookDocumentParams,
    DidOpenTextDocumentParams, DidSaveNotebookDocumentParams, DidSaveTextDocumentParams,
    DocumentColorParams, DocumentDiagnosticParams, DocumentDiagnosticReportPartialResult,
    DocumentFormattingParams, DocumentHighlightParams, DocumentLinkParams,
    DocumentOnTypeFormattingParams, DocumentRangeFormattingParams,
    DocumentRangesFormattingParams, DocumentSymbolParams, ExecuteCommandParams,
    FoldingRangeParams, HoverParams, ImplementationParams, XInitializeParams,
    WorkspaceFoldersInitializeParams, InitializeParams, InitializeResult, InitializedParams,
    InlayHintParams, InlineCompletionParams, InlineValueParams, LinkedEditingRangeParams,
    LogMessageParams, LogTraceParams, MonikerParams, ParamConfiguration, ParamInitialize,
    ParameterInformation, PrepareRenameParams, ProgressParams, PublishDiagnosticsParams,
    ReferenceParams, RegistrationParams, RenameFilesParams, RenameParams, SelectionRangeParams,
    SemanticTokensDeltaParams, SemanticTokensDeltaPartialResult, SemanticTokensParams,
    SemanticTokensPartialResult, SemanticTokensRangeParams, SetTraceParams, ShowDocumentParams,
    ShowDocumentResult, ShowMessageParams, ShowMessageRequestParams, SignatureInformation,
    SignatureHelp, SignatureHelpContext, SignatureHelpParams, TypeDefinitionParams,
    TypeHierarchyPrepareParams, TypeHierarchySubtypesParams, TypeHierarchySupertypesParams,
    UnregistrationParams, WillSaveTextDocumentParams, WorkDoneProgressCancelParams,
    WorkDoneProgressCreateParams, WorkspaceDiagnosticParams,
    WorkspaceDiagnosticReportPartialResult, WorkspaceSymbolParams, _InitializeParams>>
=============================================================================
