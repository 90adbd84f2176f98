--------------------------- MODULE UdpThroughput -----------------------------
(***************************************************************************)
(* The UDP bulk transfers (udpdownload, udpupload): the tester's client    *)
(* and the endpoint's throughput server.  A payload is `chunks' datagrams  *)
(* of up to CHUNK_SIZE bytes; byte counts are counted in chunks.           *)
(***************************************************************************)
EXTENDS Datagrams

CONSTANT Payloads     \* payload sizes, in chunks

ASSUME PayloadsAssumption == Payloads \subseteq Nat

VARIABLES
  chunks,      \* total_seqs of this transfer
  next,        \* upload: the next chunk the client sends
  got,         \* chunks the receiver has counted: received_seqs
  blasts,      \* download: one running send_download task per CMD_DOWNLOAD
  upload,      \* server: is there an UploadState for this client
  reached      \* chunks that reached the receiving side at all

transfer == <<chunks, next, got, blasts, upload, reached>>

TransferModes == {"udpdownload", "udpupload"}

TransferInit ==
  /\ chunks \in IF mode \in TransferModes THEN Payloads ELSE {0}
  /\ next = 0 /\ got = {} /\ blasts = <<>> /\ upload = FALSE /\ reached = {}

make_ctrl(cmd, value) == [kind |-> cmd, value |-> value, copy |-> 0]
DataPacket(s, c) == [kind |-> "data", seq |-> s, copy |-> c]

(***************************************************************************)
(* The client.                                                             *)
(***************************************************************************)
\* connect_udp and the command; resolution, bind, connect or send may fail.
SendCommand ==
  /\ pc = "start" /\ mode \in TransferModes
  /\ pc' = "ack"
  /\ toServer' = {make_ctrl(IF mode = "udpdownload" THEN "download" ELSE "upload", chunks)}
  /\ UNCHANGED <<mode, result, toClient, dups, transfer>>

SendCommandFails ==
  /\ pc = "start" /\ mode \in TransferModes
  /\ pc' = "done" /\ result' = Failed("udp")
  /\ UNCHANGED <<mode, network, transfer>>

DownloadResult(g) ==
  [kind |-> "udpdownload", success |-> g # {}, sent |-> chunks, received |-> Cardinality(g),
   lost |-> chunks - Cardinality(g)]

\* wait_for_ack: the ACK, a data packet that overtook it, or CMD_DONE before
\* either.  An upload takes any of them for the ACK.
RecvWhileAck(p) ==
  /\ pc = "ack" /\ p \in toClient
  /\ toClient' = toClient \ {p}
  /\ IF mode = "udpupload"
     THEN pc' = "upload" /\ UNCHANGED <<got, reached, result>>
     ELSE \/ p.kind = "ack" /\ pc' = "recv" /\ UNCHANGED <<got, reached, result>>
          \/ /\ p.kind = "done" /\ pc' = "done"
             /\ result' = DownloadResult({}) /\ UNCHANGED <<got, reached>>
          \/ /\ p.kind = "data" /\ pc' = "recv"
             /\ got' = {p.seq} /\ reached' = reached \cup {p.seq} /\ UNCHANGED result
  /\ UNCHANGED <<mode, toServer, dups, chunks, next, blasts, upload>>

AckTimeout ==
  /\ pc = "ack"
  /\ pc' = "done" /\ result' = Failed("udp")
  /\ UNCHANGED <<mode, network, transfer>>

\* recv_download: data is counted once per chunk, CMD_DONE starts the drain,
\* other control packets (a late ACK) are ignored.
RecvDownload(p) ==
  /\ pc \in {"recv", "drain"} /\ mode = "udpdownload" /\ p \in toClient
  /\ toClient' = toClient \ {p}
  /\ IF p.kind = "data"
     THEN got' = got \cup {p.seq} /\ reached' = reached \cup {p.seq}
     ELSE UNCHANGED <<got, reached>>
  /\ pc' = IF p.kind = "done" THEN "drain" ELSE pc
  /\ UNCHANGED <<mode, result, toServer, dups, chunks, next, blasts, upload>>

\* The deadline or the drain ends, or the socket fails.
DownloadEnds ==
  /\ pc \in {"recv", "drain"} /\ mode = "udpdownload"
  /\ pc' = "done" /\ result' = DownloadResult(got)
  /\ UNCHANGED <<mode, network, transfer>>

UploadResult(acked) ==
  [kind |-> "udpupload", success |-> chunks = 0 \/ acked > 0, sent |-> next, acked |-> acked,
   lost |-> IF chunks > acked THEN chunks - acked ELSE 0]

\* send_upload: the chunks, up to a send error, then CMD_DONE; a transfer of
\* nothing does not wait for the report.
SendChunk ==
  /\ pc = "upload" /\ next < chunks
  /\ toServer' = toServer \cup {DataPacket(next, 0)}
  /\ next' = next + 1
  /\ UNCHANGED <<mode, pc, result, toClient, dups, chunks, got, blasts, upload, reached>>

SendUploadDone ==
  /\ pc = "upload"
  /\ toServer' = toServer \cup {make_ctrl("done", chunks)}
  /\ IF chunks = 0 THEN pc' = "done" /\ result' = UploadResult(0)
                   ELSE pc' = "report" /\ UNCHANGED result
  /\ UNCHANGED <<mode, toClient, dups, transfer>>

\* wait_for_report: anything but the report is skipped.
RecvReport(p) ==
  /\ pc = "report" /\ p \in toClient
  /\ toClient' = toClient \ {p}
  /\ IF p.kind = "report" THEN pc' = "done" /\ result' = UploadResult(p.value)
                          ELSE UNCHANGED <<pc, result>>
  /\ UNCHANGED <<mode, toServer, dups, transfer>>

\* No report: the loss is unknown, the attempt is an error.
ReportTimeout ==
  /\ pc = "report"
  /\ pc' = "done" /\ result' = Failed("udp")
  /\ UNCHANGED <<mode, network, transfer>>

(***************************************************************************)
(* The server.                                                             *)
(***************************************************************************)
ServerDownload(p) ==
  /\ p \in toServer /\ p.kind = "download"
  /\ toServer' = toServer \ {p}
  /\ toClient' = toClient \cup {[make_ctrl("ack", 0) EXCEPT !.copy = p.copy]}
  /\ blasts' = Append(blasts, 0)
  /\ UNCHANGED <<probe, dups, chunks, next, got, upload, reached>>

\* send_download: the chunks in order, then CMD_DONE; a send error skips to it.
SendDownload(i, ok) ==
  /\ blasts[i] <= chunks
  /\ IF blasts[i] < chunks /\ ok
     THEN /\ toClient' = toClient \cup {DataPacket(blasts[i], i - 1)}
          /\ blasts' = [blasts EXCEPT ![i] = @ + 1]
     ELSE /\ toClient' = toClient \cup {[make_ctrl("done", chunks) EXCEPT !.copy = i - 1]}
          /\ blasts' = [blasts EXCEPT ![i] = chunks + 1]
  /\ UNCHANGED <<probe, toServer, dups, chunks, next, got, upload, reached>>

\* CMD_UPLOAD replaces any earlier state of this client.
ServerUpload(p) ==
  /\ p \in toServer /\ p.kind = "upload"
  /\ toServer' = toServer \ {p}
  /\ toClient' = toClient \cup {[make_ctrl("ack", 0) EXCEPT !.copy = p.copy]}
  /\ upload' = TRUE /\ got' = {}
  /\ UNCHANGED <<probe, dups, chunks, next, blasts, reached>>

\* Mutant: every data packet is counted, the repeated ones too.
ServerDataEach(p) ==
  /\ p \in toServer /\ p.kind = "data"
  /\ toServer' = toServer \ {p}
  /\ got' = IF upload THEN got \cup {p.seq + p.copy * (chunks + 1)} ELSE got
  /\ reached' = reached \cup {p.seq}
  /\ UNCHANGED <<probe, toClient, dups, chunks, next, blasts, upload>>

\* A data packet of a known upload is counted once per chunk.
ServerData(p) ==
  /\ p \in toServer /\ p.kind = "data"
  /\ toServer' = toServer \ {p}
  /\ got' = IF upload THEN got \cup {p.seq} ELSE got
  /\ reached' = reached \cup {p.seq}
  /\ UNCHANGED <<probe, toClient, dups, chunks, next, blasts, upload>>

\* CMD_DONE removes the state and reports what arrived; without one it is ignored.
ServerDone(p) ==
  /\ p \in toServer /\ p.kind = "done"
  /\ toServer' = toServer \ {p}
  /\ upload' = FALSE
  /\ IF upload
     THEN toClient' = toClient \cup {make_ctrl("report", Cardinality(got))}
     ELSE UNCHANGED toClient
  /\ UNCHANGED <<probe, dups, chunks, next, got, blasts, reached>>

\* reap_stale_uploads: states older than 60 s go, on every hundredth packet.
ReapStaleUpload ==
  /\ upload /\ upload' = FALSE
  /\ UNCHANGED <<probe, network, chunks, next, got, blasts, reached>>

TransferStep ==
  \/ SendCommand \/ SendCommandFails \/ AckTimeout \/ DownloadEnds \/ SendChunk
  \/ SendUploadDone \/ ReportTimeout
  \/ \E p \in toClient : RecvWhileAck(p) \/ RecvDownload(p) \/ RecvReport(p)

ThroughputServerStep ==
  \/ \E p \in toServer : ServerDownload(p) \/ ServerUpload(p) \/ ServerData(p) \/ ServerDone(p)
  \/ \E i \in DOMAIN blasts, ok \in BOOLEAN : SendDownload(i, ok)
  \/ ReapStaleUpload

-----------------------------------------------------------------------------
\* Loss is never understated: a finished transfer claims no more chunks than
\* really arrived on the receiving side, whatever was duplicated, reordered or
\* answered late, and a download claims exactly what its receiver read.
LossNotUnderstated ==
  /\ result.kind = "udpdownload" =>
       /\ result.received + result.lost = chunks
       /\ result.received <= Cardinality(reached)
       /\ result.received = Cardinality(got)
  /\ result.kind = "udpupload" =>
       /\ result.acked <= Cardinality(reached)
       /\ result.success => result.acked > 0 \/ chunks = 0

=============================================================================
