------------------------------- MODULE MCMime -------------------------------
(* Mime with the table of the source, and the order of its extensions. *)
EXTENDS Mime

Head1 == <<".aac", ".avif", ".bmp", ".css", ".csv", ".eot", ".flac", ".gif", ".gz", ".htm",
           ".html", ".ico", ".ics">>
Tail1 == <<".js", ".json", ".m3u8", ".map", ".mp3", ".mp4", ".ogg", ".ogv", ".otf", ".pdf",
           ".png", ".rss", ".svg", ".tar", ".tiff", ".ts", ".ttf", ".txt", ".wasm", ".webm",
           ".webp", ".woff", ".woff2", ".xhtml", ".xml", ".zip", ".zst">>

SourceTable == Head1 \o <<".jpg", ".jpeg">> \o Tail1

InOrder == Head1 \o <<".jpeg", ".jpg">> \o Tail1
TableExtensions == {InOrder[i] : i \in 1 .. Len(InOrder)}
RankInOrder == [e \in TableExtensions |-> CHOOSE i \in 1 .. Len(InOrder) : InOrder[i] = e]

=============================================================================
