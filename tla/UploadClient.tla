---------------------------- MODULE UploadClient ----------------------------
(***************************************************************************)
(* The C upload client, client.c, and the server of UploadServer that it   *)
(* talks to: one program that posts files one after the other, each on a   *)
(* connection of its own.  libcurl makes the connection; it is modelled    *)
(* here by what the options that postUrl sets make it do: send the head,   *)
(* send the body after one second without a proper "100 Continue", wait    *)
(* for the whole response, and give up five seconds after the start.       *)
(*                                                                         *)
(* The file may be cut short or removed by other programs at any time.     *)
(***************************************************************************)
EXTENDS UploadServer

CONSTANTS
  NoFile,     \* the state of the file when it does not exist
  MaxBlocks   \* bound of the model: the blocks of a file

Blocks == 0..MaxBlocks

\* The head that postUrl asks for: an Expect line, a type, the size of the file.
HeadFor(n) == [expect |-> TRUE, length |-> n, typed |-> TRUE, long |-> FALSE]

ASSUME UploadClientAssumption ==
  /\ NoFile \notin Nat
  /\ MaxBlocks \in Nat
  /\ \A n \in Blocks : HeadFor(n) \in Request

VARIABLES
  cpc,          \* where the client is
  disk,         \* the blocks of the chosen file, or NoFile
  opened,       \* indata.in is not NULL
  uploadsize,
  curl,         \* the connection of the transfer in hand
  read,         \* blocks of the body that were sent
  outcome       \* what curl_easy_perform returned last

clientVars == <<cpc, disk, opened, uploadsize, curl, read, outcome>>
allVars == <<vars, clientVars>>

\* Of all the codes, those that a transfer to this server can end with.
CURLcode == {"CURLE_OK", "CURLE_COULDNT_CONNECT", "CURLE_OPERATION_TIMEDOUT",
             "CURLE_RECV_ERROR"}

\* The states of the client inside curl_easy_perform.
Performing == {"connect", "head", "body", "await"}
Ended == {"exited", "aborted"}

ClientTypeOK ==
  /\ UploadTypeOK
  /\ cpc \in {"menu", "stat", "open", "cleanup"} \cup Performing \cup Ended
  /\ disk \in Blocks \cup {NoFile}
  /\ opened \in BOOLEAN
  /\ uploadsize \in Blocks
  /\ curl \in Conn \cup {NoConn}
  /\ read \in 0..uploadsize
  /\ outcome \in CURLcode
  /\ cpc \in {"head", "body", "await"} => curl # NoConn

ClientInit ==
  /\ Init
  /\ cpc = "menu"
  /\ disk = NoFile
  /\ opened = FALSE
  /\ uploadsize = 0
  /\ curl = NoConn
  /\ read = 0
  /\ outcome = "CURLE_OK"
----------------------------------------------------------------------------
(* main() *)

Unused == {c \in Conn : peer[c] = "idle"}

\* A line of source.txt is chosen; its file may or may not exist.  The bound on
\* the posts is the number of connections.
Choose ==
  /\ cpc = "menu"
  /\ Unused # {}
  /\ disk' \in Blocks \cup {NoFile}
  /\ cpc' = "stat"
  /\ UNCHANGED <<sockVars, opened, uploadsize, curl, read, outcome>>

StatFile ==
  /\ cpc = "stat"
  /\ cpc' = IF disk = NoFile THEN "exited" ELSE "open"
  /\ UNCHANGED <<sockVars, disk, opened, uploadsize, curl, read, outcome>>
----------------------------------------------------------------------------
(* postUrl() *)

\* The size is asked again and the file is opened, both without a look at the
\* result: without a file the size is what was in fileInfo.
OpenFile ==
  /\ cpc = "open"
  /\ opened' = (disk # NoFile)
  /\ uploadsize' \in IF disk = NoFile THEN Blocks ELSE {disk}
  /\ read' = 0
  /\ cpc' = "connect"
  /\ UNCHANGED <<sockVars, disk, curl, outcome>>

Return(code) ==
  /\ cpc' = "cleanup"
  /\ outcome' = code

\* Nobody listens any more once the server has ended.
ConnectServer ==
  /\ cpc = "connect"
  /\ \/ /\ ~Dead
        /\ curl' = CHOOSE c \in Unused : TRUE
        /\ Connect(curl')
        /\ cpc' = "head"
        /\ UNCHANGED outcome
     \/ /\ Dead
        /\ Return("CURLE_COULDNT_CONNECT")
        /\ UNCHANGED <<sockVars, curl>>
  /\ UNCHANGED <<disk, opened, uploadsize, read>>

\* The wait for "100 Continue" ends after a second, whatever was received: the
\* server's interim line is not a whole response.
SendHead ==
  /\ cpc = "head"
  /\ PeerSend(curl, HeadFor(uploadsize))
  /\ cpc' = IF uploadsize = 0 THEN "await" ELSE "body"
  /\ UNCHANGED <<disk, opened, uploadsize, curl, read, outcome>>

\* CURLOPT_POSTFIELDSIZE: as many bytes as the file had, and no more.
OneTooMany(n) == n > uploadsize
BodySent(n) == n = uploadsize

\* read_callback reads the next part of the file, or nothing at its end; with a
\* NULL file it crashes, and the system closes the connection.
SendBody ==
  /\ cpc = "body"
  /\ \/ /\ opened
        /\ disk # NoFile => read < disk
        /\ PeerSend(curl, Body)
        /\ read' = read + 1
        /\ cpc' = IF BodySent(read') THEN "await" ELSE "body"
     \/ /\ opened /\ disk # NoFile /\ read >= disk
        /\ cpc' = "await"
        /\ UNCHANGED <<sockVars, read>>
     \/ /\ ~opened
        /\ PeerClose(curl)
        /\ cpc' = "aborted"
        /\ UNCHANGED read
  /\ UNCHANGED <<disk, opened, uploadsize, curl, outcome>>

\* The interim line does not end a response, and taken for one it would be wrong.
InterimReceived == replies[curl] >= 1
ResponseReceived == replies[curl] >= 2

Answered ==
  /\ cpc = "await"
  /\ ResponseReceived
  /\ Return("CURLE_OK")
  /\ UNCHANGED <<sockVars, disk, opened, uploadsize, curl, read>>

\* CURLOPT_TIMEOUT_MS, at any point of the transfer; without the option curl waits
\* for ever.
NeverExpires == FALSE
Expires == cpc \in Performing

Timeout ==
  /\ Expires
  /\ Return("CURLE_OPERATION_TIMEDOUT")
  /\ UNCHANGED <<sockVars, disk, opened, uploadsize, curl, read>>

\* The connection is lost: the server has closed it or has ended.
Lost ==
  /\ cpc \in {"head", "body", "await"}
  /\ Dead \/ peer[curl] = "closed"
  /\ Return("CURLE_RECV_ERROR")
  /\ UNCHANGED <<sockVars, disk, opened, uploadsize, curl, read>>

\* curl_easy_cleanup closes the connection; without it the connection stays.
KeepOpen == UNCHANGED sockVars
CloseConnection ==
  IF curl # NoConn /\ peer[curl] = "open" THEN PeerClose(curl) ELSE UNCHANGED sockVars

\* fclose of a NULL file crashes, and so may the return over type[20], which the
\* shortest type overflows.
Cleanup ==
  /\ cpc = "cleanup"
  /\ CloseConnection
  /\ curl' = NoConn
  /\ cpc' \in IF opened THEN {"menu", "aborted"} ELSE {"aborted"}
  /\ UNCHANGED <<disk, opened, uploadsize, read, outcome>>

\* Some other program cuts the file short or removes it.  A file that is open
\* keeps its blocks when it is removed.
Shrink ==
  /\ cpc \notin {"menu"} \cup Ended
  /\ disk # NoFile
  /\ disk' \in {n \in Blocks : n < disk} \cup {NoFile}
  /\ UNCHANGED <<sockVars, cpc, opened, uploadsize, curl, read, outcome>>
----------------------------------------------------------------------------
ClientStep ==
  \/ Choose
  \/ StatFile
  \/ OpenFile
  \/ ConnectServer
  \/ SendHead
  \/ SendBody
  \/ Answered
  \/ Timeout
  \/ Lost
  \/ Cleanup

Remember == alone' = (alone /\ Cardinality(Alive') <= 1)

\* The client waits for the network or for its user, or has ended.
ClientWaits == cpc \in {"await", "menu"} \cup Ended /\ UNCHANGED allVars

\* The two programs and whoever changes the file.
ServerActs == ServerStep /\ UNCHANGED <<clientVars, alone>>
ClientActs == ClientStep /\ Remember /\ UNCHANGED serverVars

ClientNext ==
  \/ ServerActs
  \/ ClientActs
  \/ Shrink /\ UNCHANGED <<serverVars, alone>>
  \/ ClientWaits

ClientSpec == ClientInit /\ [][ClientNext]_allVars

\* Both programs run, and a timer that is set expires.
FairClientSpec == ClientSpec /\ WF_allVars(ServerActs) /\ WF_allVars(ClientActs)
----------------------------------------------------------------------------
(* Properties *)

\* When curl_easy_perform returns CURLE_OK the server's file.txt holds what was
\* posted, all of it and nothing else, whatever became of earlier posts that were
\* given up halfway (postUrl with the upload loop of server.c).
AnsweredIsSaved ==
  [][outcome' = "CURLE_OK" /\ cpc = "await" /\ cpc' = "cleanup"
       => file = [n \in 1..uploadsize |-> curl]]_allVars

\* Every post returns to the menu or ends the client, also when the server waits
\* for bytes that never come: an empty file, or one that was cut short.
PostEnds == cpc = "connect" ~> cpc \in {"menu"} \cup Ended

\* The server gets out of its upload loop, because the client that keeps it there
\* gives up in the end.
UploadLoopLeft == pc = "upload" ~> pc # "upload"
=============================================================================
