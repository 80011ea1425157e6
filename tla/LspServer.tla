----------------------------- MODULE LspServer ------------------------------
(***************************************************************************)
(* What a server says it can do and registers for: the capabilities and    *)
(* options in its answer to initialize (lsp/protocol/tsprotocol.go and     *)
(* tsjson.go), in the notation of LspTypes.                                *)
(***************************************************************************)
EXTENDS LspTypes

WorkDoneProgressOptions == Obj(<<>>, [workDoneProgress |-> Bool])
CallHierarchyOptions == Embeds(<<WorkDoneProgressOptions>>, Obj(<<>>, <<>>))
Msg_NotebookDocumentFilter == Obj([notebookType |-> Str], [scheme |-> Str, pattern |-> Str])
Or_NotebookCellTextDocumentFilter_notebook == Or(<<Msg_NotebookDocumentFilter, Str>>)
NotebookCellTextDocumentFilter == Obj([notebook |-> Or_NotebookCellTextDocumentFilter_notebook],
    [language |-> Str])
Msg_TextDocumentFilter == Obj([scheme |-> Str], [language |-> Str, pattern |-> Str])
Or_DocumentFilter == Or(<<NotebookCellTextDocumentFilter, Msg_TextDocumentFilter>>)
TextDocumentRegistrationOptions == Obj([documentSelector |-> Arr(Or_DocumentFilter)], <<>>)
StaticRegistrationOptions == Obj(<<>>, [id |-> Str])
CallHierarchyRegistrationOptions == Embeds(<<TextDocumentRegistrationOptions,
    CallHierarchyOptions, StaticRegistrationOptions>>, Obj(<<>>, <<>>))
CodeActionOptions == Embeds(<<WorkDoneProgressOptions>>, Obj(<<>>, [codeActionKinds |-> Arr(Str),
    resolveProvider |-> Bool]))
CodeActionRegistrationOptions == Embeds(<<TextDocumentRegistrationOptions, CodeActionOptions>>,
    Obj(<<>>, <<>>))
CodeLensOptions == Embeds(<<WorkDoneProgressOptions>>, Obj(<<>>, [resolveProvider |-> Bool]))
CodeLensRegistrationOptions == Embeds(<<TextDocumentRegistrationOptions, CodeLensOptions>>,
    Obj(<<>>, <<>>))
PCompletionItemPCompletionProvider == Obj(<<>>, [labelDetailsSupport |-> Bool])
CompletionOptions == Embeds(<<WorkDoneProgressOptions>>, Obj(<<>>, [triggerCharacters |->
    Arr(Str), allCommitCharacters |-> Arr(Str), resolveProvider |-> Bool, completionItem |->
    Ptr(PCompletionItemPCompletionProvider)]))
CompletionRegistrationOptions == Embeds(<<TextDocumentRegistrationOptions, CompletionOptions>>,
    Obj(<<>>, <<>>))
DeclarationOptions == Embeds(<<WorkDoneProgressOptions>>, Obj(<<>>, <<>>))
DeclarationRegistrationOptions == Embeds(<<DeclarationOptions, TextDocumentRegistrationOptions,
    StaticRegistrationOptions>>, Obj(<<>>, <<>>))
DefinitionOptions == Embeds(<<WorkDoneProgressOptions>>, Obj(<<>>, <<>>))
DefinitionRegistrationOptions == Embeds(<<TextDocumentRegistrationOptions, DefinitionOptions>>,
    Obj(<<>>, <<>>))
DiagnosticOptions == Embeds(<<WorkDoneProgressOptions>>, Obj([interFileDependencies |-> Bool,
    workspaceDiagnostics |-> Bool], [identifier |-> Str]))
DiagnosticRegistrationOptions == Embeds(<<TextDocumentRegistrationOptions, DiagnosticOptions,
    StaticRegistrationOptions>>, Obj(<<>>, <<>>))
OrPSection_workspace_didChangeConfiguration == Or(<<Arr(Str), Str>>)
DidChangeConfigurationRegistrationOptions == Obj(<<>>, [section |->
    Ptr(OrPSection_workspace_didChangeConfiguration)])
FileSystemWatcher == Obj([globPattern |-> Str], [kind |-> Ptr(Num)])
DidChangeWatchedFilesRegistrationOptions == Obj([watchers |-> Arr(FileSystemWatcher)], <<>>)
DocumentColorOptions == Embeds(<<WorkDoneProgressOptions>>, Obj(<<>>, <<>>))
DocumentColorRegistrationOptions == Embeds(<<TextDocumentRegistrationOptions,
    DocumentColorOptions, StaticRegistrationOptions>>, Obj(<<>>, <<>>))
DocumentFormattingOptions == Embeds(<<WorkDoneProgressOptions>>, Obj(<<>>, <<>>))
FormattingOptions == Obj([tabSize |-> Num, insertSpaces |-> Bool], [trimTrailingWhitespace |->
    Bool, insertFinalNewline |-> Bool, trimFinalNewlines |-> Bool])
DocumentFormattingRegistrationOptions == Embeds(<<TextDocumentRegistrationOptions,
    DocumentFormattingOptions>>, Obj(<<>>, <<>>))
DocumentHighlightOptions == Embeds(<<WorkDoneProgressOptions>>, Obj(<<>>, <<>>))
DocumentHighlightRegistrationOptions == Embeds(<<TextDocumentRegistrationOptions,
    DocumentHighlightOptions>>, Obj(<<>>, <<>>))
DocumentLinkOptions == Embeds(<<WorkDoneProgressOptions>>, Obj(<<>>, [resolveProvider |-> Bool]))
DocumentLinkRegistrationOptions == Embeds(<<TextDocumentRegistrationOptions,
    DocumentLinkOptions>>, Obj(<<>>, <<>>))
DocumentOnTypeFormattingOptions == Obj([firstTriggerCharacter |-> Str], [moreTriggerCharacter |->
    Arr(Str)])
DocumentOnTypeFormattingRegistrationOptions == Embeds(<<TextDocumentRegistrationOptions,
    DocumentOnTypeFormattingOptions>>, Obj(<<>>, <<>>))
DocumentRangeFormattingOptions == Embeds(<<WorkDoneProgressOptions>>, Obj(<<>>, [rangesSupport |->
    Bool]))
DocumentRangeFormattingRegistrationOptions == Embeds(<<TextDocumentRegistrationOptions,
    DocumentRangeFormattingOptions>>, Obj(<<>>, <<>>))
DocumentSymbolOptions == Embeds(<<WorkDoneProgressOptions>>, Obj(<<>>, [label |-> Str]))
DocumentSymbolRegistrationOptions == Embeds(<<TextDocumentRegistrationOptions,
    DocumentSymbolOptions>>, Obj(<<>>, <<>>))
ExecuteCommandOptions == Embeds(<<WorkDoneProgressOptions>>, Obj([commands |-> Arr(Str)], <<>>))
ExecuteCommandRegistrationOptions == Embeds(<<ExecuteCommandOptions>>, Obj(<<>>, <<>>))
FileOperationPatternOptions == Obj(<<>>, [ignoreCase |-> Bool])
FileOperationPattern == Obj([glob |-> Str], [matches |-> Ptr(Str), options |->
    Ptr(FileOperationPatternOptions)])
FileOperationFilter == Obj([pattern |-> FileOperationPattern], [scheme |-> Str])
FileOperationRegistrationOptions == Obj([filters |-> Arr(FileOperationFilter)], <<>>)
FileOperationOptions == Obj(<<>>, [didCreate |-> Ptr(FileOperationRegistrationOptions), willCreate
    |-> Ptr(FileOperationRegistrationOptions), didRename |->
    Ptr(FileOperationRegistrationOptions), willRename |-> Ptr(FileOperationRegistrationOptions),
    didDelete |-> Ptr(FileOperationRegistrationOptions), willDelete |->
    Ptr(FileOperationRegistrationOptions)])
FoldingRangeOptions == Embeds(<<WorkDoneProgressOptions>>, Obj(<<>>, <<>>))
FoldingRangeRegistrationOptions == Embeds(<<TextDocumentRegistrationOptions, FoldingRangeOptions,
    StaticRegistrationOptions>>, Obj(<<>>, <<>>))
HoverOptions == Embeds(<<WorkDoneProgressOptions>>, Obj(<<>>, <<>>))
HoverRegistrationOptions == Embeds(<<TextDocumentRegistrationOptions, HoverOptions>>, Obj(<<>>,
    <<>>))
ImplementationOptions == Embeds(<<WorkDoneProgressOptions>>, Obj(<<>>, <<>>))
ImplementationRegistrationOptions == Embeds(<<TextDocumentRegistrationOptions,
    ImplementationOptions, StaticRegistrationOptions>>, Obj(<<>>, <<>>))
Lit_NotebookDocumentSyncOptions_notebookSelector_Elem_Item1_cells_Elem == Obj([language |-> Str],
    <<>>)
Or_NotebookDocumentSyncOptions_notebookSelector_Elem_Item1_notebook ==
    Or(<<Msg_NotebookDocumentFilter, Str>>)
Lit_NotebookDocumentSyncOptions_notebookSelector_Elem_Item1 == Obj([cells |->
    Arr(Lit_NotebookDocumentSyncOptions_notebookSelector_Elem_Item1_cells_Elem)], [notebook |->
    Ptr(Or_NotebookDocumentSyncOptions_notebookSelector_Elem_Item1_notebook)])
Or_NotebookDocumentSyncOptions_notebookSelector_Elem_Item0_notebook ==
    Or(<<Msg_NotebookDocumentFilter, Str>>)
Lit_NotebookDocumentSyncOptions_notebookSelector_Elem_Item0_cells_Elem == Obj([language |-> Str],
    <<>>)
PNotebookSelectorPNotebookDocumentSync == Obj([notebook |->
    Or_NotebookDocumentSyncOptions_notebookSelector_Elem_Item0_notebook], [cells |->
    Arr(Lit_NotebookDocumentSyncOptions_notebookSelector_Elem_Item0_cells_Elem)])
Or_NotebookDocumentSyncOptions_notebookSelector_Elem ==
    Or(<<Lit_NotebookDocumentSyncOptions_notebookSelector_Elem_Item1,
    PNotebookSelectorPNotebookDocumentSync>>)
NotebookDocumentSyncOptions == Obj([notebookSelector |->
    Arr(Or_NotebookDocumentSyncOptions_notebookSelector_Elem)], [save |-> Bool])
NotebookDocumentSyncRegistrationOptions == Embeds(<<NotebookDocumentSyncOptions,
    StaticRegistrationOptions>>, Obj(<<>>, <<>>))
Or_ServerCapabilities_notebookDocumentSync == Or(<<NotebookDocumentSyncOptions,
    NotebookDocumentSyncRegistrationOptions>>)
Or_ServerCapabilities_hoverProvider == Or(<<HoverOptions, Bool>>)
SignatureHelpOptions == Embeds(<<WorkDoneProgressOptions>>, Obj(<<>>, [triggerCharacters |->
    Arr(Str), retriggerCharacters |-> Arr(Str)]))
Or_ServerCapabilities_declarationProvider == Or(<<DeclarationOptions,
    DeclarationRegistrationOptions, Bool>>)
Or_ServerCapabilities_definitionProvider == Or(<<DefinitionOptions, Bool>>)
TypeDefinitionOptions == Embeds(<<WorkDoneProgressOptions>>, Obj(<<>>, <<>>))
TypeDefinitionRegistrationOptions == Embeds(<<TextDocumentRegistrationOptions,
    TypeDefinitionOptions, StaticRegistrationOptions>>, Obj(<<>>, <<>>))
Or_ServerCapabilities_typeDefinitionProvider == Or(<<TypeDefinitionOptions,
    TypeDefinitionRegistrationOptions, Bool>>)
Or_ServerCapabilities_implementationProvider == Or(<<ImplementationOptions,
    ImplementationRegistrationOptions, Bool>>)
ReferenceOptions == Embeds(<<WorkDoneProgressOptions>>, Obj(<<>>, <<>>))
Or_ServerCapabilities_referencesProvider == Or(<<ReferenceOptions, Bool>>)
Or_ServerCapabilities_documentHighlightProvider == Or(<<DocumentHighlightOptions, Bool>>)
Or_ServerCapabilities_documentSymbolProvider == Or(<<DocumentSymbolOptions, Bool>>)
Or_ServerCapabilities_colorProvider == Or(<<DocumentColorOptions,
    DocumentColorRegistrationOptions, Bool>>)
WorkspaceSymbolOptions == Embeds(<<WorkDoneProgressOptions>>, Obj(<<>>, [resolveProvider |->
    Bool]))
Or_ServerCapabilities_workspaceSymbolProvider == Or(<<WorkspaceSymbolOptions, Bool>>)
Or_ServerCapabilities_documentFormattingProvider == Or(<<DocumentFormattingOptions, Bool>>)
Or_ServerCapabilities_documentRangeFormattingProvider == Or(<<DocumentRangeFormattingOptions,
    Bool>>)
Or_ServerCapabilities_foldingRangeProvider == Or(<<FoldingRangeOptions,
    FoldingRangeRegistrationOptions, Bool>>)
SelectionRangeOptions == Embeds(<<WorkDoneProgressOptions>>, Obj(<<>>, <<>>))
SelectionRangeRegistrationOptions == Embeds(<<SelectionRangeOptions,
    TextDocumentRegistrationOptions, StaticRegistrationOptions>>, Obj(<<>>, <<>>))
Or_ServerCapabilities_selectionRangeProvider == Or(<<SelectionRangeOptions,
    SelectionRangeRegistrationOptions, Bool>>)
Or_ServerCapabilities_callHierarchyProvider == Or(<<CallHierarchyOptions,
    CallHierarchyRegistrationOptions, Bool>>)
LinkedEditingRangeOptions == Embeds(<<WorkDoneProgressOptions>>, Obj(<<>>, <<>>))
LinkedEditingRangeRegistrationOptions == Embeds(<<TextDocumentRegistrationOptions,
    LinkedEditingRangeOptions, StaticRegistrationOptions>>, Obj(<<>>, <<>>))
Or_ServerCapabilities_linkedEditingRangeProvider == Or(<<LinkedEditingRangeOptions,
    LinkedEditingRangeRegistrationOptions, Bool>>)
MonikerOptions == Embeds(<<WorkDoneProgressOptions>>, Obj(<<>>, <<>>))
MonikerRegistrationOptions == Embeds(<<TextDocumentRegistrationOptions, MonikerOptions>>,
    Obj(<<>>, <<>>))
Or_ServerCapabilities_monikerProvider == Or(<<MonikerOptions, MonikerRegistrationOptions, Bool>>)
TypeHierarchyOptions == Embeds(<<WorkDoneProgressOptions>>, Obj(<<>>, <<>>))
TypeHierarchyRegistrationOptions == Embeds(<<TextDocumentRegistrationOptions,
    TypeHierarchyOptions, StaticRegistrationOptions>>, Obj(<<>>, <<>>))
Or_ServerCapabilities_typeHierarchyProvider == Or(<<TypeHierarchyOptions,
    TypeHierarchyRegistrationOptions, Bool>>)
InlineValueOptions == Embeds(<<WorkDoneProgressOptions>>, Obj(<<>>, <<>>))
InlineValueRegistrationOptions == Embeds(<<InlineValueOptions, TextDocumentRegistrationOptions,
    StaticRegistrationOptions>>, Obj(<<>>, <<>>))
Or_ServerCapabilities_inlineValueProvider == Or(<<InlineValueOptions,
    InlineValueRegistrationOptions, Bool>>)
Or_ServerCapabilities_diagnosticProvider == Or(<<DiagnosticOptions,
    DiagnosticRegistrationOptions>>)
InlineCompletionOptions == Embeds(<<WorkDoneProgressOptions>>, Obj(<<>>, <<>>))
Or_ServerCapabilities_inlineCompletionProvider == Or(<<InlineCompletionOptions, Bool>>)
Or_WorkspaceFoldersServerCapabilities_changeNotifications == Or(<<Bool, Str>>)
WorkspaceFolders5Gn == Obj(<<>>, [supported |-> Bool, changeNotifications |->
    Ptr(Or_WorkspaceFoldersServerCapabilities_changeNotifications)])
Workspace6Gn == Obj(<<>>, [workspaceFolders |-> Ptr(WorkspaceFolders5Gn), fileOperations |->
    Ptr(FileOperationOptions)])
ServerCapabilities == Obj([AssumeWorks |-> Bool], [positionEncoding |-> Ptr(Str), textDocumentSync
    |-> AnyValue, notebookDocumentSync |-> Ptr(Or_ServerCapabilities_notebookDocumentSync),
    completionProvider |-> Ptr(CompletionOptions), hoverProvider |->
    Ptr(Or_ServerCapabilities_hoverProvider), signatureHelpProvider |-> Ptr(SignatureHelpOptions),
    declarationProvider |-> Ptr(Or_ServerCapabilities_declarationProvider), definitionProvider |->
    Ptr(Or_ServerCapabilities_definitionProvider), typeDefinitionProvider |->
    Ptr(Or_ServerCapabilities_typeDefinitionProvider), implementationProvider |->
    Ptr(Or_ServerCapabilities_implementationProvider), referencesProvider |->
    Ptr(Or_ServerCapabilities_referencesProvider), documentHighlightProvider |->
    Ptr(Or_ServerCapabilities_documentHighlightProvider), documentSymbolProvider |->
    Ptr(Or_ServerCapabilities_documentSymbolProvider), codeActionProvider |-> AnyValue,
    codeLensProvider |-> Ptr(CodeLensOptions), documentLinkProvider |-> Ptr(DocumentLinkOptions),
    colorProvider |-> Ptr(Or_ServerCapabilities_colorProvider), workspaceSymbolProvider |->
    Ptr(Or_ServerCapabilities_workspaceSymbolProvider), documentFormattingProvider |->
    Ptr(Or_ServerCapabilities_documentFormattingProvider), documentRangeFormattingProvider |->
    Ptr(Or_ServerCapabilities_documentRangeFormattingProvider), documentOnTypeFormattingProvider
    |-> Ptr(DocumentOnTypeFormattingOptions), renameProvider |-> AnyValue, foldingRangeProvider |->
    Ptr(Or_ServerCapabilities_foldingRangeProvider), selectionRangeProvider |->
    Ptr(Or_ServerCapabilities_selectionRangeProvider), executeCommandProvider |->
    Ptr(ExecuteCommandOptions), callHierarchyProvider |->
    Ptr(Or_ServerCapabilities_callHierarchyProvider), linkedEditingRangeProvider |->
    Ptr(Or_ServerCapabilities_linkedEditingRangeProvider), semanticTokensProvider |-> AnyValue,
    monikerProvider |-> Ptr(Or_ServerCapabilities_monikerProvider), typeHierarchyProvider |->
    Ptr(Or_ServerCapabilities_typeHierarchyProvider), inlineValueProvider |->
    Ptr(Or_ServerCapabilities_inlineValueProvider), inlayHintProvider |-> AnyValue, diagnosticProvider
    |-> Ptr(Or_ServerCapabilities_diagnosticProvider), inlineCompletionProvider |->
    Ptr(Or_ServerCapabilities_inlineCompletionProvider), workspace |-> Ptr(Workspace6Gn),
    experimental |-> AnyValue])
InlayHintOptions == Embeds(<<WorkDoneProgressOptions>>, Obj(<<>>, [resolveProvider |-> Bool]))
InlayHintRegistrationOptions == Embeds(<<InlayHintOptions, TextDocumentRegistrationOptions,
    StaticRegistrationOptions>>, Obj(<<>>, <<>>))
InlineCompletionRegistrationOptions == Embeds(<<InlineCompletionOptions,
    TextDocumentRegistrationOptions, StaticRegistrationOptions>>, Obj(<<>>, <<>>))
PFullESemanticTokensOptions == Obj(<<>>, [delta |-> Bool])
PRangeESemanticTokensOptions == Obj(<<>>, <<>>)
ReferenceRegistrationOptions == Embeds(<<TextDocumentRegistrationOptions, ReferenceOptions>>,
    Obj(<<>>, <<>>))
RenameOptions == Embeds(<<WorkDoneProgressOptions>>, Obj(<<>>, [prepareProvider |-> Bool]))
RenameRegistrationOptions == Embeds(<<TextDocumentRegistrationOptions, RenameOptions>>, Obj(<<>>,
    <<>>))
SaveOptions == Obj(<<>>, [includeText |-> Bool])
SemanticTokensLegend == Obj([tokenTypes |-> Arr(Str), tokenModifiers |-> Arr(Str)], <<>>)
Or_SemanticTokensOptions_range == Or(<<PRangeESemanticTokensOptions, Bool>>)
Or_SemanticTokensOptions_full == Or(<<PFullESemanticTokensOptions, Bool>>)
SemanticTokensOptions == Embeds(<<WorkDoneProgressOptions>>, Obj([legend |->
    SemanticTokensLegend], [range |-> Ptr(Or_SemanticTokensOptions_range), full |->
    Ptr(Or_SemanticTokensOptions_full)]))
SemanticTokensRegistrationOptions == Embeds(<<TextDocumentRegistrationOptions,
    SemanticTokensOptions, StaticRegistrationOptions>>, Obj(<<>>, <<>>))
SignatureHelpRegistrationOptions == Embeds(<<TextDocumentRegistrationOptions,
    SignatureHelpOptions>>, Obj(<<>>, <<>>))
TextDocumentChangeRegistrationOptions == Embeds(<<TextDocumentRegistrationOptions>>, Obj([syncKind
    |-> Num], <<>>))
TextDocumentSaveRegistrationOptions == Embeds(<<TextDocumentRegistrationOptions, SaveOptions>>,
    Obj(<<>>, <<>>))
TextDocumentSyncOptions == Obj(<<>>, [openClose |-> Bool, change |-> Ptr(Num), willSave |-> Bool,
    willSaveWaitUntil |-> Bool, save |-> Ptr(SaveOptions)])
WorkDoneProgressOptionsAndTextDocumentRegistrationOptions == Embeds(<<WorkDoneProgressOptions,
    TextDocumentRegistrationOptions>>, Obj(<<>>, <<>>))
WorkspaceFoldersServerCapabilities == Obj(<<>>, [supported |-> Bool, changeNotifications |->
    Ptr(Or_WorkspaceFoldersServerCapabilities_changeNotifications)])
WorkspaceSymbolRegistrationOptions == Embeds(<<WorkspaceSymbolOptions>>, Obj(<<>>, <<>>))
Or_ServerCapabilities_codeActionProvider == Or(<<CodeActionOptions, Bool>>)
Or_ServerCapabilities_inlayHintProvider == Or(<<InlayHintOptions, InlayHintRegistrationOptions,
    Bool>>)
Or_ServerCapabilities_renameProvider == Or(<<RenameOptions, Bool>>)
Or_ServerCapabilities_semanticTokensProvider == Or(<<SemanticTokensOptions,
    SemanticTokensRegistrationOptions>>)
Or_ServerCapabilities_textDocumentSync == Or(<<Num, TextDocumentSyncOptions>>)
Or_TextDocumentSyncOptions_save == Or(<<SaveOptions, Bool>>)

\* The structs of this module.
ServerStructs == <<WorkDoneProgressOptions, CallHierarchyOptions, Msg_NotebookDocumentFilter,
    NotebookCellTextDocumentFilter, Msg_TextDocumentFilter, TextDocumentRegistrationOptions,
    StaticRegistrationOptions, CallHierarchyRegistrationOptions, CodeActionOptions,
    CodeActionRegistrationOptions, CodeLensOptions, CodeLensRegistrationOptions,
    PCompletionItemPCompletionProvider, CompletionOptions, CompletionRegistrationOptions,
    DeclarationOptions, DeclarationRegistrationOptions, DefinitionOptions,
    DefinitionRegistrationOptions, DiagnosticOptions, DiagnosticRegistrationOptions,
    DidChangeConfigurationRegistrationOptions, FileSystemWatcher,
    DidChangeWatchedFilesRegistrationOptions, DocumentColorOptions,
    DocumentColorRegistrationOptions, DocumentFormattingOptions, FormattingOptions,
    DocumentFormattingRegistrationOptions, DocumentHighlightOptions,
    DocumentHighlightRegistrationOptions, DocumentLinkOptions, DocumentLinkRegistrationOptions,
    DocumentOnTypeFormattingOptions, DocumentOnTypeFormattingRegistrationOptions,
    DocumentRangeFormattingOptions, DocumentRangeFormattingRegistrationOptions,
    DocumentSymbolOptions, DocumentSymbolRegistrationOptions, ExecuteCommandOptions,
    ExecuteCommandRegistrationOptions, FileOperationPatternOptions, FileOperationPattern,
    FileOperationFilter, FileOperationRegistrationOptions, FileOperationOptions,
    FoldingRangeOptions, FoldingRangeRegistrationOptions, HoverOptions,
    HoverRegistrationOptions, ImplementationOptions, ImplementationRegistrationOptions,
    Lit_NotebookDocumentSyncOptions_notebookSelector_Elem_Item1_cells_Elem,
    Lit_NotebookDocumentSyncOptions_notebookSelector_Elem_Item1,
    Lit_NotebookDocumentSyncOptions_notebookSelector_Elem_Item0_cells_Elem,
    PNotebookSelectorPNotebookDocumentSync, NotebookDocumentSyncOptions,
    NotebookDocumentSyncRegistrationOptions, SignatureHelpOptions, TypeDefinitionOptions,
    TypeDefinitionRegistrationOptions, ReferenceOptions, WorkspaceSymbolOptions,
    SelectionRangeOptions, SelectionRangeRegistrationOptions, LinkedEditingRangeOptions,
    LinkedEditingRangeRegistrationOptions, MonikerOptions, MonikerRegistrationOptions,
    TypeHierarchyOptions, TypeHierarchyRegistrationOptions, InlineValueOptions,
    InlineValueRegistrationOptions, InlineCompletionOptions, WorkspaceFolders5Gn, Workspace6Gn,
    ServerCapabilities, InlayHintOptions, InlayHintRegistrationOptions,
    InlineCompletionRegistrationOptions, PFullESemanticTokensOptions,
    PRangeESemanticTokensOptions, ReferenceRegistrationOptions, RenameOptions,
    RenameRegistrationOptions, SaveOptions, SemanticTokensLegend, SemanticTokensOptions,
    SemanticTokensRegistrationOptions, SignatureHelpRegistrationOptions,
    TextDocumentChangeRegistrationOptions, TextDocumentSaveRegistrationOptions,
    TextDocumentSyncOptions, WorkDoneProgressOptionsAndTextDocumentRegistrationOptions,
    WorkspaceFoldersServerCapabilities, WorkspaceSymbolRegistrationOptions>>
=============================================================================
