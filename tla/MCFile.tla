------------------------------- MODULE MCFile -------------------------------
(* Instances of FileTransfer: a key of four bytes whose first byte comes    *)
(* again inside it, as the f of "ft_StUfF_key" does.                        *)
EXTENDS FileTransfer

CONSTANTS f, t, y, x, eof, wv, MaxFile

MCBytes == {f, t, y, x}
MCKey == <<f, t, f, y>>

AllFiles == UNION {[1..n -> MCBytes] : n \in 0..MaxFile}
CleanFiles == {s \in AllFiles : Clean(s)}

\* Any short file.
AnyFile == [1..1 -> AllFiles]

\* A file with the whole key in it between two short ones.
Keyed == {s \in CleanFiles : \E i \in 0..(Len(s) - Len(MCKey)) :
                                SubSeq(s, i + 1, i + Len(MCKey)) = MCKey}
Short == {s \in CleanFiles : Len(s) <= 1}
CleanTransfers == [1..1 -> CleanFiles] \cup (Short \X Keyed \X Short)
=============================================================================
