----------------------------- MODULE LspClient ------------------------------
(***************************************************************************)
(* What a client says it can do: the capabilities in the initialize        *)
(* request (lsp/protocol/tsprotocol.go), in the notation of LspTypes.      *)
(***************************************************************************)
EXTENDS LspTypes

CallHierarchyClientCapabilities == Obj(<<>>, [dynamicRegistration |-> Bool])
PChangeAnnotationSupportPWorkspaceEdit == Obj(<<>>, [groupsOnLabel |-> Bool])
WorkspaceEditClientCapabilities == Obj(<<>>, [documentChanges |-> Bool, resourceOperations |->
    Arr(Str), failureHandling |-> Ptr(Str), normalizesLineEndings |-> Bool,
    changeAnnotationSupport |-> Ptr(PChangeAnnotationSupportPWorkspaceEdit)])
DidChangeConfigurationClientCapabilities == Obj(<<>>, [dynamicRegistration |-> Bool])
DidChangeWatchedFilesClientCapabilities == Obj(<<>>, [dynamicRegistration |-> Bool,
    relativePatternSupport |-> Bool])
PSymbolKindPSymbol == Obj(<<>>, [valueSet |-> Arr(Num)])
PTagSupportPSymbol == Obj([valueSet |-> Arr(Num)], <<>>)
PResolveSupportPSymbol == Obj([properties |-> Arr(Str)], <<>>)
WorkspaceSymbolClientCapabilities == Obj(<<>>, [dynamicRegistration |-> Bool, symbolKind |->
    Ptr(PSymbolKindPSymbol), tagSupport |-> Ptr(PTagSupportPSymbol), resolveSupport |->
    Ptr(PResolveSupportPSymbol)])
ExecuteCommandClientCapabilities == Obj(<<>>, [dynamicRegistration |-> Bool])
SemanticTokensWorkspaceClientCapabilities == Obj(<<>>, [refreshSupport |-> Bool])
CodeLensWorkspaceClientCapabilities == Obj(<<>>, [refreshSupport |-> Bool])
FileOperationClientCapabilities == Obj(<<>>, [dynamicRegistration |-> Bool, didCreate |-> Bool,
    willCreate |-> Bool, didRename |-> Bool, willRename |-> Bool, didDelete |-> Bool, willDelete
    |-> Bool])
InlineValueWorkspaceClientCapabilities == Obj(<<>>, [refreshSupport |-> Bool])
InlayHintWorkspaceClientCapabilities == Obj(<<>>, [refreshSupport |-> Bool])
DiagnosticWorkspaceClientCapabilities == Obj(<<>>, [refreshSupport |-> Bool])
WorkspaceClientCapabilities == Obj(<<>>, [applyEdit |-> Bool, workspaceEdit |->
    Ptr(WorkspaceEditClientCapabilities), didChangeConfiguration |->
    Ptr(DidChangeConfigurationClientCapabilities), didChangeWatchedFiles |->
    Ptr(DidChangeWatchedFilesClientCapabilities), symbol |->
    Ptr(WorkspaceSymbolClientCapabilities), executeCommand |->
    Ptr(ExecuteCommandClientCapabilities), workspaceFolders |-> Bool, configuration |-> Bool,
    semanticTokens |-> Ptr(SemanticTokensWorkspaceClientCapabilities), codeLens |->
    Ptr(CodeLensWorkspaceClientCapabilities), fileOperations |->
    Ptr(FileOperationClientCapabilities), inlineValue |->
    Ptr(InlineValueWorkspaceClientCapabilities), inlayHint |->
    Ptr(InlayHintWorkspaceClientCapabilities), diagnostics |->
    Ptr(DiagnosticWorkspaceClientCapabilities)])
TextDocumentSyncClientCapabilities == Obj(<<>>, [dynamicRegistration |-> Bool, willSave |-> Bool,
    willSaveWaitUntil |-> Bool, didSave |-> Bool])
FTagSupportPCompletionItem == Obj([valueSet |-> Arr(Num)], <<>>)
FResolveSupportPCompletionItem == Obj([properties |-> Arr(Str)], <<>>)
FInsertTextModeSupportPCompletionItem == Obj([valueSet |-> Arr(Num)], <<>>)
PCompletionItemPCompletion == Obj(<<>>, [snippetSupport |-> Bool, commitCharactersSupport |->
    Bool, documentationFormat |-> Arr(Str), deprecatedSupport |-> Bool, preselectSupport |-> Bool,
    tagSupport |-> Ptr(FTagSupportPCompletionItem), insertReplaceSupport |-> Bool, resolveSupport
    |-> Ptr(FResolveSupportPCompletionItem), insertTextModeSupport |->
    Ptr(FInsertTextModeSupportPCompletionItem), labelDetailsSupport |-> Bool])
PCompletionItemKindPCompletion == Obj(<<>>, [valueSet |-> Arr(Num)])
PCompletionListPCompletion == Obj(<<>>, [itemDefaults |-> Arr(Str)])
CompletionClientCapabilities == Obj(<<>>, [dynamicRegistration |-> Bool, completionItem |->
    Ptr(PCompletionItemPCompletion), completionItemKind |-> Ptr(PCompletionItemKindPCompletion),
    insertTextMode |-> Ptr(Num), contextSupport |-> Bool, completionList |->
    Ptr(PCompletionListPCompletion)])
HoverClientCapabilities == Obj(<<>>, [dynamicRegistration |-> Bool, contentFormat |-> Arr(Str)])
FParameterInformationPSignatureInformation == Obj(<<>>, [labelOffsetSupport |-> Bool])
PSignatureInformationPSignatureHelp == Obj(<<>>, [documentationFormat |-> Arr(Str),
    parameterInformation |-> Ptr(FParameterInformationPSignatureInformation),
    activeParameterSupport |-> Bool])
SignatureHelpClientCapabilities == Obj(<<>>, [dynamicRegistration |-> Bool, signatureInformation
    |-> Ptr(PSignatureInformationPSignatureHelp), contextSupport |-> Bool])
DeclarationClientCapabilities == Obj(<<>>, [dynamicRegistration |-> Bool, linkSupport |-> Bool])
DefinitionClientCapabilities == Obj(<<>>, [dynamicRegistration |-> Bool, linkSupport |-> Bool])
TypeDefinitionClientCapabilities == Obj(<<>>, [dynamicRegistration |-> Bool, linkSupport |->
    Bool])
ImplementationClientCapabilities == Obj(<<>>, [dynamicRegistration |-> Bool, linkSupport |->
    Bool])
ReferenceClientCapabilities == Obj(<<>>, [dynamicRegistration |-> Bool])
DocumentHighlightClientCapabilities == Obj(<<>>, [dynamicRegistration |-> Bool])
PSymbolKindPDocumentSymbol == Obj(<<>>, [valueSet |-> Arr(Num)])
PTagSupportPDocumentSymbol == Obj([valueSet |-> Arr(Num)], <<>>)
DocumentSymbolClientCapabilities == Obj(<<>>, [dynamicRegistration |-> Bool, symbolKind |->
    Ptr(PSymbolKindPDocumentSymbol), hierarchicalDocumentSymbolSupport |-> Bool, tagSupport |->
    Ptr(PTagSupportPDocumentSymbol), labelSupport |-> Bool])
FCodeActionKindPCodeActionLiteralSupport == Obj([valueSet |-> Arr(Str)], <<>>)
PCodeActionLiteralSupportPCodeAction == Obj([codeActionKind |->
    FCodeActionKindPCodeActionLiteralSupport], <<>>)
PResolveSupportPCodeAction == Obj([properties |-> Arr(Str)], <<>>)
CodeActionClientCapabilities == Obj(<<>>, [dynamicRegistration |-> Bool, codeActionLiteralSupport
    |-> Ptr(PCodeActionLiteralSupportPCodeAction), isPreferredSupport |-> Bool, disabledSupport
    |-> Bool, dataSupport |-> Bool, resolveSupport |-> Ptr(PResolveSupportPCodeAction),
    honorsChangeAnnotations |-> Bool])
CodeLensClientCapabilities == Obj(<<>>, [dynamicRegistration |-> Bool])
DocumentLinkClientCapabilities == Obj(<<>>, [dynamicRegistration |-> Bool, tooltipSupport |->
    Bool])
DocumentColorClientCapabilities == Obj(<<>>, [dynamicRegistration |-> Bool])
DocumentFormattingClientCapabilities == Obj(<<>>, [dynamicRegistration |-> Bool])
DocumentRangeFormattingClientCapabilities == Obj(<<>>, [dynamicRegistration |-> Bool,
    rangesSupport |-> Bool])
DocumentOnTypeFormattingClientCapabilities == Obj(<<>>, [dynamicRegistration |-> Bool])
RenameClientCapabilities == Obj(<<>>, [dynamicRegistration |-> Bool, prepareSupport |-> Bool,
    prepareSupportDefaultBehavior |-> Ptr(Num), honorsChangeAnnotations |-> Bool])
PFoldingRangeKindPFoldingRange == Obj(<<>>, [valueSet |-> Arr(Str)])
PFoldingRangePFoldingRange == Obj(<<>>, [collapsedText |-> Bool])
FoldingRangeClientCapabilities == Obj(<<>>, [dynamicRegistration |-> Bool, rangeLimit |-> Num,
    lineFoldingOnly |-> Bool, foldingRangeKind |-> Ptr(PFoldingRangeKindPFoldingRange),
    foldingRange |-> Ptr(PFoldingRangePFoldingRange)])
SelectionRangeClientCapabilities == Obj(<<>>, [dynamicRegistration |-> Bool])
PTagSupportPPublishDiagnostics == Obj([valueSet |-> Arr(Num)], <<>>)
PublishDiagnosticsClientCapabilities == Obj(<<>>, [relatedInformation |-> Bool, tagSupport |->
    Ptr(PTagSupportPPublishDiagnostics), versionSupport |-> Bool, codeDescriptionSupport |-> Bool,
    dataSupport |-> Bool])
FRangePRequests == Obj(<<>>, <<>>)
Or_SemanticTokensClientCapabilities_requests_range == Or(<<FRangePRequests, Bool>>)
FFullPRequests == Obj(<<>>, [delta |-> Bool])
Or_SemanticTokensClientCapabilities_requests_full == Or(<<FFullPRequests, Bool>>)
PRequestsPSemanticTokens == Obj(<<>>, [range |->
    Ptr(Or_SemanticTokensClientCapabilities_requests_range), full |->
    Ptr(Or_SemanticTokensClientCapabilities_requests_full)])
SemanticTokensClientCapabilities == Obj([requests |-> PRequestsPSemanticTokens, tokenTypes |->
    Arr(Str), tokenModifiers |-> Arr(Str), formats |-> Arr(Str)], [dynamicRegistration |-> Bool,
    overlappingTokenSupport |-> Bool, multilineTokenSupport |-> Bool, serverCancelSupport |->
    Bool, augmentsSyntaxTokens |-> Bool])
LinkedEditingRangeClientCapabilities == Obj(<<>>, [dynamicRegistration |-> Bool])
MonikerClientCapabilities == Obj(<<>>, [dynamicRegistration |-> Bool])
TypeHierarchyClientCapabilities == Obj(<<>>, [dynamicRegistration |-> Bool])
InlineValueClientCapabilities == Obj(<<>>, [dynamicRegistration |-> Bool])
PResolveSupportPInlayHint == Obj([properties |-> Arr(Str)], <<>>)
InlayHintClientCapabilities == Obj(<<>>, [dynamicRegistration |-> Bool, resolveSupport |->
    Ptr(PResolveSupportPInlayHint)])
DiagnosticClientCapabilities == Obj(<<>>, [dynamicRegistration |-> Bool, relatedDocumentSupport
    |-> Bool])
InlineCompletionClientCapabilities == Obj(<<>>, [dynamicRegistration |-> Bool])
TextDocumentClientCapabilities == Obj(<<>>, [synchronization |->
    Ptr(TextDocumentSyncClientCapabilities), completion |-> Ptr(CompletionClientCapabilities),
    hover |-> Ptr(HoverClientCapabilities), signatureHelp |->
    Ptr(SignatureHelpClientCapabilities), declaration |-> Ptr(DeclarationClientCapabilities),
    definition |-> Ptr(DefinitionClientCapabilities), typeDefinition |->
    Ptr(TypeDefinitionClientCapabilities), implementation |->
    Ptr(ImplementationClientCapabilities), references |-> Ptr(ReferenceClientCapabilities),
    documentHighlight |-> Ptr(DocumentHighlightClientCapabilities), documentSymbol |->
    Ptr(DocumentSymbolClientCapabilities), codeAction |-> Ptr(CodeActionClientCapabilities),
    codeLens |-> Ptr(CodeLensClientCapabilities), documentLink |->
    Ptr(DocumentLinkClientCapabilities), colorProvider |-> Ptr(DocumentColorClientCapabilities),
    formatting |-> Ptr(DocumentFormattingClientCapabilities), rangeFormatting |->
    Ptr(DocumentRangeFormattingClientCapabilities), onTypeFormatting |->
    Ptr(DocumentOnTypeFormattingClientCapabilities), rename |-> Ptr(RenameClientCapabilities),
    foldingRange |-> Ptr(FoldingRangeClientCapabilities), selectionRange |->
    Ptr(SelectionRangeClientCapabilities), publishDiagnostics |->
    Ptr(PublishDiagnosticsClientCapabilities), callHierarchy |->
    Ptr(CallHierarchyClientCapabilities), semanticTokens |->
    Ptr(SemanticTokensClientCapabilities), linkedEditingRange |->
    Ptr(LinkedEditingRangeClientCapabilities), moniker |-> Ptr(MonikerClientCapabilities),
    typeHierarchy |-> Ptr(TypeHierarchyClientCapabilities), inlineValue |->
    Ptr(InlineValueClientCapabilities), inlayHint |-> Ptr(InlayHintClientCapabilities), diagnostic
    |-> Ptr(DiagnosticClientCapabilities), inlineCompletion |->
    Ptr(InlineCompletionClientCapabilities)])
NotebookDocumentSyncClientCapabilities == Obj(<<>>, [dynamicRegistration |-> Bool,
    executionSummarySupport |-> Bool])
NotebookDocumentClientCapabilities == Obj([synchronization |->
    NotebookDocumentSyncClientCapabilities], <<>>)
PMessageActionItemPShowMessage == Obj(<<>>, [additionalPropertiesSupport |-> Bool])
ShowMessageRequestClientCapabilities == Obj(<<>>, [messageActionItem |->
    Ptr(PMessageActionItemPShowMessage)])
ShowDocumentClientCapabilities == Obj([support |-> Bool], <<>>)
WindowClientCapabilities == Obj(<<>>, [workDoneProgress |-> Bool, showMessage |->
    Ptr(ShowMessageRequestClientCapabilities), showDocument |->
    Ptr(ShowDocumentClientCapabilities)])
PStaleRequestSupportPGeneral == Obj([cancel |-> Bool, retryOnContentModified |-> Arr(Str)], <<>>)
RegularExpressionsClientCapabilities == Obj([engine |-> Str], [version |-> Str])
MarkdownClientCapabilities == Obj([parser |-> Str], [version |-> Str, allowedTags |-> Arr(Str)])
GeneralClientCapabilities == Obj(<<>>, [staleRequestSupport |-> Ptr(PStaleRequestSupportPGeneral),
    regularExpressions |-> Ptr(RegularExpressionsClientCapabilities), markdown |->
    Ptr(MarkdownClientCapabilities), positionEncodings |-> Arr(Str)])
ClientCapabilities == Obj(<<>>, [workspace |-> Ptr(WorkspaceClientCapabilities), textDocument |->
    Ptr(TextDocumentClientCapabilities), notebookDocument |->
    Ptr(NotebookDocumentClientCapabilities), window |-> Ptr(WindowClientCapabilities), general |->
    Ptr(GeneralClientCapabilities), experimental |-> AnyValue])

\* The structs of this module.
ClientStructs == <<CallHierarchyClientCapabilities, PChangeAnnotationSupportPWorkspaceEdit,
    WorkspaceEditClientCapabilities, DidChangeConfigurationClientCapabilities,
    DidChangeWatchedFilesClientCapabilities, PSymbolKindPSymbol, PTagSupportPSymbol,
    PResolveSupportPSymbol, WorkspaceSymbolClientCapabilities, ExecuteCommandClientCapabilities,
    SemanticTokensWorkspaceClientCapabilities, CodeLensWorkspaceClientCapabilities,
    FileOperationClientCapabilities, InlineValueWorkspaceClientCapabilities,
    InlayHintWorkspaceClientCapabilities, DiagnosticWorkspaceClientCapabilities,
    WorkspaceClientCapabilities, TextDocumentSyncClientCapabilities, FTagSupportPCompletionItem,
    FResolveSupportPCompletionItem, FInsertTextModeSupportPCompletionItem,
    PCompletionItemPCompletion, PCompletionItemKindPCompletion, PCompletionListPCompletion,
    CompletionClientCapabilities, HoverClientCapabilities,
    FParameterInformationPSignatureInformation, PSignatureInformationPSignatureHelp,
    SignatureHelpClientCapabilities, DeclarationClientCapabilities,
    DefinitionClientCapabilities, TypeDefinitionClientCapabilities,
    ImplementationClientCapabilities, ReferenceClientCapabilities,
    DocumentHighlightClientCapabilities, PSymbolKindPDocumentSymbol, PTagSupportPDocumentSymbol,
    DocumentSymbolClientCapabilities, FCodeActionKindPCodeActionLiteralSupport,
    PCodeActionLiteralSupportPCodeAction, PResolveSupportPCodeAction,
    CodeActionClientCapabilities, CodeLensClientCapabilities, DocumentLinkClientCapabilities,
    DocumentColorClientCapabilities, DocumentFormattingClientCapabilities,
    DocumentRangeFormattingClientCapabilities, DocumentOnTypeFormattingClientCapabilities,
    RenameClientCapabilities, PFoldingRangeKindPFoldingRange, PFoldingRangePFoldingRange,
    FoldingRangeClientCapabilities, SelectionRangeClientCapabilities,
    PTagSupportPPublishDiagnostics, PublishDiagnosticsClientCapabilities, FRangePRequests,
    FFullPRequests, PRequestsPSemanticTokens, SemanticTokensClientCapabilities,
    LinkedEditingRangeClientCapabilities, MonikerClientCapabilities,
    TypeHierarchyClientCapabilities, InlineValueClientCapabilities, PResolveSupportPInlayHint,
    InlayHintClientCapabilities, DiagnosticClientCapabilities,
    InlineCompletionClientCapabilities, TextDocumentClientCapabilities,
    NotebookDocumentSyncClientCapabilities, NotebookDocumentClientCapabilities,
    PMessageActionItemPShowMessage, ShowMessageRequestClientCapabilities,
    ShowDocumentClientCapabilities, WindowClientCapabilities, PStaleRequestSupportPGeneral,
    RegularExpressionsClientCapabilities, MarkdownClientCapabilities, GeneralClientCapabilities,
    ClientCapabilities>>
=============================================================================
