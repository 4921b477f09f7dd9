--------------------------- MODULE DownloadResult ---------------------------
(***************************************************************************)
(* What _download_to_stream promises its caller _download: a call that    *)
(* starts eventually returns once, having streamed the bytes ("ok"), or    *)
(* raises the IOError of an exhausted download, the ValueError of a bad    *)
(* status code, or an IOError while reading; the outcome never changes.    *)
(***************************************************************************)
VARIABLE result

Outcomes == {"ok", "ioerror", "badcode", "readerror"}

Init == result = "pending"

\* The call returns with one of its outcomes.
Return == result = "pending" /\ result' \in Outcomes

Spec == Init /\ [][Return]_result /\ WF_result(Return)
=============================================================================
