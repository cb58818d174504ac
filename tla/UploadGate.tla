----------------------------- MODULE UploadGate -----------------------------
(***************************************************************************)
(* The gates an upload passes before anything is recorded of it: size,     *)
(* options, the repaired filename, extension, content, converter.  The     *)
(* converter then derives the input type from the same repaired name, so   *)
(* what the gates let through must be what it can take.                    *)
(*                                                                         *)
(* A request is a record: endpoint; ext, the extension of its filename     *)
(* ("" if none); content, what its bytes are; large, over the plan's size; *)
(* options, what its pdf_options, dimensions or target size ask for.       *)
(***************************************************************************)
EXTENDS Common, Sequences, TLC

\* bytes that some signature, manifest or root element identifies, and the others
BinaryContents == {"png", "jpeg", "gif", "webp", "heic", "pdf", "docx", "odt", "zip", "ole"}
Contents == BinaryContents \cup {"svg", "text"}
Options == {None, "malformed", "grayscale", "geometry", "dimensions", "target"}

-----------------------------------------------------------------------------
(* The routes: each checks the size and hands over to forward_to_backend; the
   groups differ in what they do with pdf_options and dimensions *)

DataRoutes == {"json-to-xml", "xml-to-json", "json-to-yaml", "yaml-to-json", "csv-to-json"}
TableRoutes == {"json-to-csv", "json-to-toml", "toml-to-json", "csv-to-xml", "xml-to-csv",
                "markdown-to-html"}
WordRoutes == {"doc-to-pdf", "excel-to-pdf"}
SlideRoutes == {"ppt-to-pdf", "odt-to-pdf", "ods-to-pdf", "odp-to-pdf", "ots-to-pdf"}
AppleRoutes == {"pages-to-pdf", "numbers-to-pdf"}
WeasyRoutes == {"html-to-pdf", "markdown-to-pdf"}
AnyRoutes == {"anything-to-markdown", "anything-to-pdf"}
UnbuiltRoutes == {"thumbnail", "video", "ocr", "speech-to-text", "text-to-speech"}
JpegRoutes == {"jpeg-to-png", "png-to-jpeg", "jpeg-to-svg", "jpeg-to-heic", "heic-to-jpeg",
               "jpeg-to-webp"}
SizedSvgRoutes == {"svg-to-jpeg", "svg-to-png", "svg-to-webp"}
RasterRoutes == {"webp-to-jpeg", "png-to-svg", "png-to-heic", "heic-to-png", "png-to-webp",
                 "webp-to-png"}
VectorRoutes == {"svg-to-heic", "heic-to-svg", "webp-to-svg", "heic-to-webp", "webp-to-heic",
                 "pdf-to-jpeg"}
CompressRoutes == {"compress-image"}

OfficeRoutes == WordRoutes \cup SlideRoutes \cup AppleRoutes
PdfRoutes == OfficeRoutes \cup WeasyRoutes \cup {"anything-to-pdf"}

\* CONVERTER_MAP: what is implemented, and which converters take options
Implemented == DataRoutes \cup TableRoutes \cup OfficeRoutes \cup WeasyRoutes \cup AnyRoutes
               \cup JpegRoutes \cup SizedSvgRoutes \cup RasterRoutes \cup VectorRoutes
               \cup CompressRoutes
AcceptsOptions == WeasyRoutes \cup {"anything-to-pdf"}

-----------------------------------------------------------------------------
(* Extensions *)

OfficeExts == {".doc", ".docx", ".xls", ".xlsx", ".ppt", ".pptx", ".odt", ".ods", ".odp",
               ".ots", ".pages", ".numbers", ".rtf", ".csv"}
ImageExts == {".png", ".jpg", ".jpeg", ".gif", ".webp", ".heic", ".heif"}
PageExts == {".html", ".htm", ".md", ".markdown", ".txt", ".epub"}

\* engines that lay the page out themselves
GeometryCapable == PageExts \cup ImageExts \cup {".svg"}
PdfSupported == OfficeExts \cup GeometryCapable \cup {".pdf"}
MarkdownSupported == PageExts \cup {".doc", ".ppt", ".xls", ".odt", ".ods", ".odp", ".rtf",
                                    ".pdf", ".docx", ".pptx", ".xlsx", ".csv"}

\* ALLOWED_EXTENSIONS
Jpeg == {".jpeg", ".jpg"}
Heic == {".heic", ".heif"}
Allowed ==
    [e \in {"json-to-xml", "json-to-yaml", "json-to-csv", "json-to-toml"} |-> {".json"}]
    @@ [e \in {"xml-to-json", "xml-to-csv"} |-> {".xml"}]
    @@ [e \in {"csv-to-json", "csv-to-xml"} |-> {".csv"}]
    @@ ("yaml-to-json" :> {".yaml", ".yml"}) @@ ("toml-to-json" :> {".toml"})
    @@ [e \in {"markdown-to-html", "markdown-to-pdf"} |-> {".md", ".markdown"}]
    @@ ("html-to-pdf" :> {".html", ".htm"}) @@ ("ppt-to-pdf" :> {".ppt", ".pptx"})
    @@ ("doc-to-pdf" :> {".docx", ".doc"}) @@ ("excel-to-pdf" :> {".xlsx", ".xls"})
    @@ ("odt-to-pdf" :> {".odt"}) @@ ("ods-to-pdf" :> {".ods"}) @@ ("odp-to-pdf" :> {".odp"})
    @@ ("ots-to-pdf" :> {".ots"}) @@ ("pages-to-pdf" :> {".pages"})
    @@ ("numbers-to-pdf" :> {".numbers"})
    @@ ("anything-to-markdown" :> MarkdownSupported) @@ ("anything-to-pdf" :> PdfSupported)
    @@ [e \in {"jpeg-to-png", "jpeg-to-svg", "jpeg-to-webp", "jpeg-to-heic"} |-> Jpeg]
    @@ [e \in {"png-to-jpeg", "png-to-svg", "png-to-webp", "png-to-heic"} |-> {".png"}]
    @@ [e \in {"webp-to-png", "webp-to-jpeg", "webp-to-svg", "webp-to-heic"} |-> {".webp"}]
    @@ [e \in {"heic-to-png", "heic-to-jpeg", "heic-to-svg", "heic-to-webp"} |-> Heic]
    @@ [e \in SizedSvgRoutes \cup {"svg-to-heic"} |-> {".svg"}]
    @@ ("pdf-to-jpeg" :> {".pdf"}) @@ ("compress-image" :> {".png", ".webp"} \cup Jpeg)
    @@ ("ocr" :> {".png", ".gif", ".webp", ".pdf"} \cup Jpeg) @@ ("text-to-speech" :> {".txt"})

\* _EXT_EXPECTED: the signature a binary extension promises
Expected(ext) ==
    CASE ext = ".png" -> "png"      [] ext \in Jpeg -> "jpeg"  [] ext = ".gif" -> "gif"
      [] ext = ".webp" -> "webp"    [] ext \in Heic -> "heic"  [] ext = ".pdf" -> "pdf"
      [] ext \in (OfficeExts \ {".rtf", ".csv"}) \cup {".epub"} -> "office"
      [] OTHER -> None

DeclaredExts == UNION {Allowed[e] : e \in DOMAIN Allowed}

\* _detect_binary_type: archives and OLE files are one group
Signature(content) ==
    IF content \in {"docx", "odt", "zip", "ole"} THEN "office"
    ELSE IF content \in BinaryContents THEN content ELSE None

\* _detect_upload_extension: an archive says by its manifest what it is, or it does not
Detected(content) ==
    CASE content = "docx" -> ".docx" [] content = "odt" -> ".odt"
      [] content \in {"zip", "ole", "text"} -> None
      [] content = "jpeg" -> ".jpg"
      [] OTHER -> "." \o content

\* normalize_upload_filename: a declared type is left for the gates to judge
Normalized(r) ==
    IF r.ext \in DeclaredExts \/ Detected(r.content) = None THEN r.ext ELSE Detected(r.content)

-----------------------------------------------------------------------------
(* The gates, in the order they answer *)

\* _parse_office_pdf_options and assert_options_supported refuse geometry that the
\* engine of this extension cannot honour; an unknown extension is left to the format gate
NoGeometry(endpoint, ext) ==
    IF endpoint = "anything-to-pdf" THEN ext \in PdfSupported \ GeometryCapable
    ELSE endpoint \in OfficeRoutes /\ ext \in Allowed[endpoint]

RouteGate(r) ==
    LET refused == \/ r.endpoint \in PdfRoutes /\ r.options = "malformed"
                   \/ r.endpoint \in PdfRoutes /\ r.options = "geometry"
                      /\ NoGeometry(r.endpoint, r.ext)
                   \/ r.endpoint \in SizedSvgRoutes /\ r.options = "dimensions"
    IN  IF r.endpoint \in CompressRoutes /\ r.options = "target" THEN "bad options"
        ELSE IF r.large THEN "too large"
        ELSE IF refused THEN "bad options" ELSE "ok"

FormatGate(r, ext) ==
    IF r.endpoint \in DOMAIN Allowed /\ ext \notin Allowed[r.endpoint] THEN "bad format" ELSE "ok"

\* the options once more, against the repaired name
MutOptionsGate(r, ext) == "ok"
OptionsGate(r, ext) ==
    IF r.endpoint \in PdfRoutes /\ r.options = "geometry" /\ NoGeometry(r.endpoint, ext)
    THEN "bad options" ELSE "ok"

\* only a recognised signature of another type refuses
ContentGate(r, ext) ==
    IF Expected(ext) # None /\ Signature(r.content) \notin {None, Expected(ext)}
    THEN "bad content" ELSE "ok"

ConverterGate(r) == IF r.endpoint \in Implemented THEN "ok" ELSE "unavailable"

GateReply(r) ==
    LET ext == Normalized(r)
        gates == <<RouteGate(r), FormatGate(r, ext), OptionsGate(r, ext), ContentGate(r, ext),
                   ConverterGate(r)>>
        refusals == {i \in DOMAIN gates : gates[i] # "ok"}
    IN  IF refusals = {} THEN "ok" ELSE gates[Min(refusals)]

\* the engine an accepted upload ends up in, by endpoint and extension (_dispatch)
PdfEngine(endpoint, ext) ==
    IF endpoint \in OfficeRoutes \/ ext \in OfficeExts THEN "LibreOffice"
    ELSE IF ext = ".pdf" THEN "passthrough"
    ELSE IF ext \in PageExts THEN "WeasyPrint" ELSE "Pillow"

-----------------------------------------------------------------------------
(* Reference: what the gates are for *)

\* A request the gates let through reaches an existing converter under a name whose
\* type it takes and whose bytes do not contradict it; its geometry options, if any,
\* reach an engine that honours them: none is dropped in silence.  And bytes that
\* identify a type the endpoint takes are never refused for a name that says nothing.
GatesAgree(r) ==
    LET ext == Normalized(r)
    IN  /\ GateReply(r) = "ok" =>
              /\ r.endpoint \in Implemented /\ ext \in Allowed[r.endpoint]
              /\ Signature(r.content) \in {None, Expected(ext)} \/ Expected(ext) = None
              /\ r.endpoint \in PdfRoutes /\ r.options = "geometry" =>
                    /\ r.endpoint \in AcceptsOptions
                    /\ PdfEngine(r.endpoint, ext) \in {"WeasyPrint", "Pillow"}
        /\ r.ext \in {"", ".dat"} /\ r.options = None /\ ~r.large /\ r.endpoint \in Implemented
           /\ Detected(r.content) \in Allowed[r.endpoint] => GateReply(r) = "ok"
=============================================================================
