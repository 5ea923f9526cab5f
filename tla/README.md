# A verification development of net-file-transfer

The repository holds five pairs of small programs that move one file over TCP, each in
another style: with libevent in C, with Boost.Asio in C++, with Node, and twice with Go.
This directory models all of them in TLA+, checks the models with TLC and proves
theorems about them with TLAPS.  The libevent programs, which the repository's README
describes step by step and which carry the most protocol, are modelled from their start,
with command line, configuration and logger, to their end.

## 1. The system

| part | source | state it keeps | operations |
|---|---|---|---|
| `fileserv` | `c/file_serv.c`, `writefile` of `c/interface.c` | `Status` (one static for all connections), the struct `finfo` on the stack of `read_cb`, an input evbuffer per connection, files in its directory | `listen_cb`, `read_cb` (HEAD and DATA branches), `event_cb`, `signal_cb`, `main` |
| `filecli` | `c/file_client.c`, `readfile` of `c/interface.c` | `Status`, the evbuffer `buf` with the file's content | `main` (connect), `read_cb` and `write_cb` (HEAD, DATA, FIN), `event_cb` |
| header | `c/fileinfo.c`, `c/fileinfo.h` | none | `encode`, `decode`, digests |
| command line | `c/config.c`, `c/config.h` | `struct parameter` | `parse_commandline` |
| logger | `c/simplog.c`, `c/simplog.h` | level, file name, silent mode, line wrap; log files and a configuration in the working directory | `writeLog`, `setLog*`, `setLineWrap`, `flushLog`, `loadConfig` |
| echo server | `c/echo_serv.c` | none | prints what it receives; an early connectivity test |
| protobuf header | `c/filehead.pb-c.*` | none | generated, used by no program |
| header test | `c/filetest.c` | none | round trip of `encode` and `decode` |
| Boost.Asio server | `cpp/server.cc`, `cpp/fileinfo.cc` | one connection: header array, file, buffer | accept (once), read the header, read and write blocks until eof |
| Boost.Asio client | `cpp/client.cc`, `cpp/fileinfo.cc` | file, buffer, endpoint iterator | resolve, connect (next endpoint on failure), write header, write blocks, shut down |
| Node programs | `cpp/serv.js`, `cpp/cli.js` | connections, reads and appends under way in the pool | the client asks by name, the server answers with the file |
| Go programs | `go/serv.go`, `go/cli.go`, `go/filedata`, `go/util` | per goroutine: header, slice of data, count | header, data until eof, digest, write |
| go-update programs | `go-update/*.go` | per goroutine: open file, position; in the client: a `bufio.Writer` | the client asks by name, the server copies the file |
| build output | `cpp/CMakeFiles`, `cpp/CMakeCache.txt`, `cpp/Makefile` | none | generated by CMake |

### How the libevent programs interact

The server speaks first.  `listen_cb` writes HEAD; the client answers with a
`struct fileinfo` (output name, size, MD5).  The server decodes it and writes DATA; the
client answers with the file.  When the evbuffer is as long as the header says, a
thread, joined at once, runs `writefile`, and the server writes FIN (or DATA again
after a short write).  `writefile` goes through stdio: its loop goes on after a short
`fwrite`, and what `fclose` cannot write any more is lost without a word.  FIN makes the
client end.  Requests are four bytes, one read per callback; nothing delimits header and
file but their lengths.

### How they start

`fileserv` reads `log_config.conf`, 1024 bytes of it at most, which sets its logger, and
names its log `server.log`; `filecli` logs to `default.log`.  Both then parse their command
line; an unknown option shows the usage on the terminal, and is logged as fatal and ends
them.  The server binds the address and the
client connects to it.  Processes that run in one directory share their log files: each
message opens its file anew and appends to it, and `flush=true` in the configuration
makes a server remove and create the file that another one may be writing; a file that
cannot be removed ends it.  The README starts client and server beside each other, and a second server may be started by
mistake.

### How the Boost.Asio programs interact

The client speaks first and alone.  It writes an array of fixed length with the file's
name in front, then the file block by block, then shuts its write end down.  The server
accepts one connection, reads the array, creates the file, reads blocks of `BUFSIZ` and
writes each; at eof it writes what the last, unfinished read has collected.  When the
connection's last handler has returned, `io_service::run` has nothing left and the
process ends; it serves one file, and clients that connected meanwhile are reset.

### How the Node programs interact

The client writes a file's name.  The server reads that file as a whole in the thread
pool and writes it to the connection.  Each data event of the client starts
`fs.appendFile`, which opens, appends and closes in the pool, and calls `client.end()`,
at the first chunk already.  The server's sockets are not half open, so its side ends as
soon as the client's has, after what was written before.  No error has a handler: a file
that is not there, a write after the end, a reset connection are thrown and end the
process, with every other connection.

### How the Go programs interact

The client writes a header encoded by msgpack (name, size, digest), then the file in
chunks, and closes.  The server starts a goroutine per connection: one `Read` of at most
`ENCODE_SIZE` bytes is taken for the header, `RecvData` copies what follows into a slice
of the size announced, until eof; if the digests agree `WriteFile` creates the file
and writes it.  After that, and after an eof in place of a header, the loop reads again
and gets eof for ever.  `log.Fatal` in any goroutine ends the process.  The client is
never told anything.

### How the go-update programs interact

The client asks for the base name of the path it was given and creates that path; the
server opens the file and copies it to the connection with `io.Copy`.  When the client
runs in the server's directory both are one file, which the client truncates while the
server may be reading it, for this client or another, and which two such clients write
each at its own offset.  The client copies into a `bufio.Writer` that nobody flushes.

### What is hard here

- **One `Status` for all connections** (`file_serv.c:17`): callbacks of several
  connections interleave, and each takes the state that another left.
- **State that outlives a connection**: `Status` and the stack slot of `finfo` are those
  of a client that may have been killed half way.
- **`finfo` is not initialised** when the DATA branch reads it (`file_serv.c:107,145`).
- **Segmentation**: the header is decoded from whatever one read returns (`:114`), the
  file is complete when a length is *equal* to another (`:145`).
- **Partial failure**: kills in the middle of `writefile`, a short `fwrite` followed by a
  good one, which leaves a gap (`interface.c:74`), a loss at `fclose` that nobody notices
  (`:78`); a resend after the client's evbuffer has been emptied; a digest checked after
  the write.
- **Progress**: both sides only answer, so a lost answer leaves both waiting.
- **Options in any order** (`config.c:12`): `-f` sets the output's name as well as `-o`;
  the port passes through a signed short and `atoi` (`config.h:19`).
- **Log files shared by processes**: between `flushLog`'s look, its removal and its
  creation other processes write and flush (`simplog.c:415`), and any removal that fails
  ends the process (`:417`); settings are applied one by one, each said under those before
  it (`:546`), and the usage under none (`config.c:28`); values left over or unset when a
  line of the configuration is not as expected (`:517`), and lines behind the first 1024
  bytes, which are not read (`:482`).
- **Partial reads and writes** (Asio): `async_read` and `async_write` collect and hand
  over a buffer in pieces, and eof may come with a buffer partly filled.  `cpp/README.md`
  tells of a version that lost the end of every small file there; the mutant
  `handle_write_file_eof_drops` is that version.
- **No acknowledgement, size or digest** (Asio): a client that is killed, a disk that
  fails and the end of a file look the same to the server.
- **One accept per process** (Asio): other clients wait in the backlog and fill its
  window, and must still end.
- **Concurrent appends** (Node, `cli.js:53`): the pool carries calls out in any order.
- **An early end** (Node, `cli.js:57`): `client.end()` at the first chunk, and an
  exception where a write follows the end.
- **Errors that end everybody** (Node, Go): one bad client ends the server's process.
- **One read for a header** (Go, `serv.go:42`): part of the header is fatal, and data that
  comes with it is lost.  `go/README.md:9` blames the size of the chunks for that.
- **Goroutines that write one name** (Go, `util/comm.go:52`), and a loop that spins at
  eof (`serv.go:47`).
- **A file truncated and written while it is served, by several clients perhaps, and a
  buffer that is not flushed** (go-update, `cli.go:42,47`).

What makes each part correct.  libevent: the server acknowledges a file only when it is
stored as sent, and whole unless a full disk has cost its end, never with another client's
header, and never mixes two streams; the client sends its header and its file once each and in order, and never
touches an evbuffer that is not there; each client ends.  Start: the options mean what
the last of each says, whatever their order (which fails for `-o` before `-f`); a client meets a server on their port; a
line in a log stays there, and a fatal error is found in it.  Boost.Asio: no word is lost
on a standing connection, and the file stored at eof is the one sent.  Node: every chunk
is in the file once, and a client that ends well has all of it.  Go: data stays in place,
a file whose digest differs is not written, and two goroutines mix no other names'
words into a file.  go-update: a served file that clients write over keeps its words in
their places, and nothing but the last buffer is lost.

## 2. Modules

| module | models |
|---|---|
| `Gaps` | what is left of a sequence when some of its elements are lost |
| `FileTransfer` | what a transfer promises: a file is stored under the name its sender asked for, the sender is told only after that, and a failed write leaves a part of the file and tells nobody; a medium that is `Lossy` may leave out words, and may lose the end of a file of which the sender is told |
| `TransferLink` | requests, `struct fileinfo`, `encode`/`decode`, and one TCP connection per client |
| `FileServ` | `fileserv`: one action per callback and branch of `read_cb` |
| `FileClient` | `filecli`: one action per request it serves and per way it ends |
| `LibeventTransfer` | server and clients composed; fairness; the properties; the refinement of `FileTransfer` |
| `MCLibeventTransfer` | values of the constants for TLC |
| `LibeventTransferProofs` | theorems that hold in every regime, and what is on the server's disk |
| `LibeventOrderlyProofs` | theorems about the orderly regime, the refinement among them |
| `CommandLine` | `parse_commandline`, and what both mains make of its result |
| `SimpLog` | the logger in several processes of one directory |
| `Startup` | servers and clients from their start to the event loop, composed of the two above |
| `MCStartup`, `StartupProofs` | command lines and configurations for TLC; theorems |
| `AsioLink` | the header of `cpp/fileinfo.cc` and one TCP connection per client |
| `AsioServer` | `cpp/server.cc`: one action per handler and way it is called |
| `AsioClient` | `cpp/client.cc`: one action per handler and way it is called |
| `AsioTransfer` | server and clients composed; fairness; the properties; the refinement of `FileTransfer` |
| `MCAsioTransfer` | values of the constants for TLC |
| `AsioTransferProofs` | theorems about the Boost.Asio programs |
| `NodeTransfer` | `serv.js` and `cli.js`: one action per callback, the pool, and the ways a process ends |
| `MCNodeTransfer`, `NodeTransferProofs` | values for TLC; theorems |
| `GoTransfer` | `go/`: one action per read, write and failure of a client and of a goroutine; the refinement of `FileTransfer` |
| `MCGoTransfer`, `GoTransferProofs` | values for TLC; theorems |
| `GoUpdate` | `go-update/`: the same for the reversed direction |
| `MCGoUpdate`, `GoUpdateProofs` | values for TLC; theorems |
| `SequenceFacts` | lemmas about sequences that all the proofs use |

`FileServ` and `FileClient` EXTEND `TransferLink`, and `LibeventTransfer` EXTENDS both and
adds to every action what the other program's variables do; `AsioTransfer` is built the
same way from `AsioServer`, `AsioClient` and `AsioLink`, and `Startup` from `SimpLog` and
`CommandLine`.  `Gaps` is EXTENDed by `FileServ`, `FileTransfer` and `SequenceFacts`.  The Node and Go programs are short, and both sides of each are in one
module.  `FileTransfer` is an INSTANCE in three of them, with expressions over the
detailed state for its variables.

### How state and actions correspond to the code: the libevent programs

- A stream is a sequence of *words*: a block of a file or a field of the header.  Words
  are numbers, because `memcpy` reads file content as header fields when the two are
  confused, and the model does the same (`decode`).
- `up[c]` and `down[c]` are the bytes on their way, `input[c]` the server's evbuffer of
  a connection, `cin[c]` the client's.  `sent` and `asked` are histories.
- `frame` is what the last HEAD branch left where `finfo` is; `Residue` what else a build
  may leave there.  With `Residue = {}` the stack slot survives from one callback to the
  next, with more values the DATA branch may read any of them.
- `read_cb(c)` is the server's callback: `ReadHead`, `ReadDataPart`, `ReadDataWrite` and
  `ReadIgnored` are its branches.  Two branches have a step that ends the process:
  `ReadHeadOverrun` (`decode` copies more than the struct holds) and `ReadDataNoName`
  (the assert after `fopen`).  `KilledInWrite` is a kill in the middle of `writefile`.
- In `ReadDataWrite`, `part` is what is in the file in the end and `total` what the calls of
  `fwrite` added up to.  `OnDisk` relates them: unless the disk is full (`DiskFull`, counted
  as a fault) `part` is all of it; if it is full, words may be missing anywhere (`Gapped`),
  and when `total` is the length all the same, what is missing is an end that was lost at
  `fclose`.  `writefile`'s result looks at `total` alone.
- libevent's loop is one thread, so a callback is a step; the thread that runs `readfile`
  or `writefile` is joined inside the callback and belongs to the step.
- `conn[c] = "eof"` is a connection whose client has gone: the server's `event_cb` logs
  it and frees nothing.
- `main` starts the server again after a stop, with its statics as loaded.
- The names' text, the digest's computation and sizes in bytes are left out.  `Md5` is a
  constant operator, a file's name is a word.  Logging is in `Startup`.

### How state and actions correspond to the code: the start

- `argv[p]` is the sequence of options as `getopt` delivers them, each with its argument
  or NULL.  `parse_commandline` is a function over its prefixes, one `Option` per turn of
  the loop; `Short` is the conversion to the port's type, `WirePort` that of `htons`,
  `Address` what `inet_aton` makes of a host.
- `calls[p]` is what a process has still to do in the logger; `main` goes on when it is
  empty.  A call that sets something adds its message in front of what is left.
- A message is two steps, `writeLog_open` and `writeLog`: the file may be removed and
  created between them.  `fd[p]` is the generation of the file that is open, and `gen[f]`
  counts the files there have been under a name, so that a line that goes to a removed
  file is told from one that is in the log.  `flushLog` is three steps: the look, the
  removal, the creation.
- `Unremovable` are the names of what `access` finds and `remove` cannot remove: a directory,
  a device, a file in a directory that is not writable (which can be opened, and is then in
  `LogName` too).  `Exists` and `Removable` are the two calls' views.  Whether a name can be
  removed does not change during a run.
- `config` is the configuration's lines and how many of them end, with their newline, in its
  first 1024 bytes: the loop that is to read the rest reads from `fd+bytesRead`, a descriptor
  that is not open, and stops.  `loadConfig` folds `Setting` over these lines (`TextLines`); a
  value that is neither true nor false gives `boolVal`'s old content, which may be either.
- `Conflict` and `Answers` are the kernel's rules for an address in use and for a
  connection.  `listen_cb` is here only the message it logs.  `ConnectFails` is a socket or a
  route that is not there: the client returns and says nothing.
- `usage` counts the usage texts that `parse_commandline` prints, one per unknown option.
- `count`, `written`, `shown`, `removed` are histories.  `shown` counts what appears because
  of a process: the logger's messages on its terminal, and the texts it prints on standard
  output (`flushLog`'s and the usage).  What goes to standard error (`perror` after a failed
  removal, an assertion's text) is not counted, nor are colour resets.

### How state and actions correspond to the code: the Boost.Asio programs

- `stage` is the handler that the server's `io_service` waits for: `handle_accept`,
  `handle_read_request` ("head"), `handle_write_file` ("file"), or none ("done").  `cli[c]`
  is the same for a client, and then how it ended.
- `rbuf` is what `async_read` has collected in `info_` or `buf_`, `pend[c]` what
  `async_write` has not handed over yet of `buf_`, `rest[c]` what `fread` has not read.
  `read_some` and `write_some` are the library's partial reads and writes, in pieces of
  any size; a handler runs when its buffer is full (or empty), at eof or at an error.
- A word is a block of a file or a part of the header; the header is two words, the name
  and the rest of the array, which `encode_fileinfo` does not set and nobody reads.
- `disk[n]` is the file as stdio has it.  A kill leaves any beginning of a file that was
  still open: what was in stdio's buffer is lost.
- `conn[c]` tells a connection in the backlog from one that is accepted ("open") and one
  that the server's side has closed ("gone").  `shut` holds the clients whose stream ends,
  because they have shut it down or because their process is gone: the server sees eof
  for both.
- `DiskFull` lets `fwrite` come out short, `ReadError` lets `fread` fail.  `closed` is a
  history of the connections that the server closed after eof.
- A client whose host argument has no colon ends like one whose file cannot be opened
  (`HasInfile`): the constructor returns with nothing to run.

### How state and actions correspond to the code: the Node programs

- A file's words are their positions in it, so `down[c]` and `size[c]` are only counts and
  `out[c]` tells in which order words came into the client's file.
- `conn[c]` is the server's side: "open", "read" (a `readFile` is under way), "readfin"
  (and the client has ended meanwhile), "wrote", "closed" (its side is ended), "gone"
  (the process has ended).  A client that calls `client.end()` is in `ended`.
- `pending[c]` are the calls of `appendFile` under way; `appendFile(c)` is any one of them
  in any order.  A call's open, write and close are one step: the file is opened to
  append, so its words land together at the end of the file.
- `on_file_throws` and `on_error` are the two ways in which an error without a handler
  ends the server; `Reset`, `Refused` and `CliKilled` are the client's.  `raced` is a
  history.

### How state and actions correspond to the code: the Go programs

- A connection's stream is known from its sender, so `sent[c]` and `got[c]` only count how
  much of it has been written and read.  `HeadLen[c]` is the header's length, which
  depends on the name that msgpack encodes.
- `go[c]` is what the goroutine of `c`'s connection does next: "head", "recv" (in
  `RecvData`), "create" and "write" (in `WriteFile`), "spin" (the loop after eof).
  `data[c]` and `cnt[c]` are `RecvData`'s slice and count.
- `ReadHead` takes any number of words from the header's length to `ENCODE_SIZE`; what it
  takes of the file is gone, and shows in `got[c]` but not in `cnt[c]`.
- `os.Create` and the write are two steps, so that two goroutines which write one name
  come between each other.  Each has its own offset: `Overwrite` leaves what another one
  has written behind its words.
- `ProcessEnds` is `log.Fatal` in any goroutine, or a kill: all connections are reset.
- Digests are equal only for equal content (`IsDataError`).  `stored` is a history.

### How state and actions correspond to the code: the go-update programs

- `dir` holds the files of all programs; `Want[c]` is the file that `c` asks for,
  `Dest[c]` the one it creates.  They are the same for a client in the server's directory.
- `fp[c]` and `pos[c]` are the file that the goroutine has open and its offset; `Send`
  reads the file as it is at that moment.
- `off[c]` is the client's own offset in the file it has created, and `WriteAt` a write there:
  what another client has put further behind stays, and a gap before it becomes zeros.
  `WriteErr` is a write that fails half way.
- `buf[c]` is the `bufio.Writer`.  Before Go 1.15 `io.Copy` reads into what room it has and
  flushes it when it is full; from 1.15 on it hands over to `os.File.ReadFrom` and the
  buffer stays empty.  `Direct` is the set of clients built with the latter.
- `EndConn` closes the connection and does not return: `OpenErr` covers it and the calls
  with a nil file after it, which fail without effect.

### External parts

TCP and libevent are modelled from how the code uses them: `Arrives` and `MayCut` (a
stream may be cut anywhere; the header, which is the first write on a connection, is cut
only if `SplitHeader`), `Send`, `Take`, `HangUp` (what was not handed to the kernel when
a process ends is lost) and `ServerGone` (its connections are reset).  For the
Boost.Asio programs they are `Accepted` (a writer waits when `Window` words are on their
way), `ProcessEnds`, `read_some`, `write_some` and `Reachable`.  The build is the one with the epoll reactor, where
`async_write` makes its first attempt at once; so the header, an array on
`handle_connect`'s stack, is taken while it exists.

For the Node programs the external parts are the pool, `net`'s end without half-open
sockets, and the rule that a process exits when nothing is left to run; for the Go
programs blocking reads and writes, `io.Copy` and `bufio`; for the start `getopt`,
`atoi`, `inet_aton`, `bind`, `connect`, and files that are opened with O_APPEND.

## 3. Two regimes

The libevent programs work under conditions that nothing in them enforces.  `Orderly` names them:
a client is started only when no other is connected, a header is never cut, and
`finfo`'s stack slot survives.  There the strong properties hold and are proved.
Outside it only the properties in the second part of `LibeventTransfer` hold; one
configuration per condition drops it and shows what happens.

## 4. Runs

| run | bounds | shows |
|---|---|---|
| `orderly` | 3 clients (two write one name, files of 2, 2 and 3 words), 2 faults, a disk that can be full (gaps, an end lost at `fclose`) | `TypeOK`, `FinMeansStored`, `FrameIsCurrent`, `NoRequestStranded`, and that the programs implement `FileTransfer` |
| `orderly_progress` | 3 clients, one without a file, files of 3 and 4 words cut anywhere, 2 faults | `Finishes`, `NobodyWaitsForEver` |
| `crowd` | 2 clients at once, headers cut anywhere, 2 residues, a disk that can be full, 1 fault | `HeadComesFirst`, `SentInOrder`, `StoredFromOneStream` |
| `two_clients` | violation | `Status` is shared: FIN for a file that is not there |
| `md5_ignored` | violation | FIN although the digests differ |
| `asio` | 3 clients (two write one name; files of 4, 3 and 0 words in blocks of 2), window of 3 words, 2 faults | `TypeOK`, `NothingLost`, `EofMeansStored`, and that the programs implement `FileTransfer` |
| `asio_progress` | 3 clients, one without a file, one name that cannot be opened, one server behind a second address, window of 2 words, both disks may fail, 1 fault | `EveryClientEnds`, `SomeFileArrives` |
| `node` | 3 clients: files of 3 and 0 words and one that is not there, 2 faults | `TypeOK`, `EachWordOnce`, `InOrderUnlessRaced`, `ThrownForBadClients`, `ExitMeansComplete`, `ClientsEnd` |
| `go` | 3 clients (two send one name; files of 2, 1 and 2 words, one header of 2 words), first read of at most 2 words, chunks of 1, 1 fault | `TypeOK`, `DataInPlace`, `WordsOfNamesakes`, `Delivered`, and that the programs implement `FileTransfer` for files whose name is sent by one client |
| `go_update` | 3 clients that ask for one file of 2 words, which may be missing: two in the server's directory, of which one has a Go from 1.15, one elsewhere; buffers of 2, 1 fault | `TypeOK`, `ServedFilesKeepWords`, `NothingLost`, `OnlyTheTailIsLost`, `EveryClientEnds` |
| `startup` | 2 servers and a client in one directory: 4 sets of command lines with 4 configurations each, and command lines in error with 5 configurations that flush, logs that cannot be removed and a text of more than 1024 bytes among them | `TypeOK`, `OptionsMean`, `MeetOnPort`, `LinesKept`, `FlushDeath`, `FatalInLog`, `AsConfigured`, `SilentTerminal` |
| `output_name` | violation | `-o` before `-f`, as in the README's usage: the output has the name of `-f` |

Some configurations stay beside these for a reader who wants to see a condition dropped;
each ends with the property violated:

| command | shows |
|---|---|
| `tlc -config CutHeader.cfg MCLibeventTransfer` | a header in two pieces: FIN for a file that is not there (`FinMeansStored`) |
| `tlc -config EmptyFileSent.cfg MCLibeventTransfer` | a file of no bytes never gets FIN (`Finishes`) |
| `tlc -config ShortWrite.cfg MCLibeventTransfer` | after a short write both sides wait for ever (`NobodyWaitsForEver`) |
| `tlc -config UnsetFinfo.cfg MCLibeventTransfer` | an unset `finfo`: the file is never written (`Finishes`) |
| `tlc -config AsioDiskFull.cfg MCAsioTransfer` | a short `fwrite`: the file has a gap, and the transfer ends as if it had none (`EofMeansStored`) |

With a full disk `FinMeansStored` says no more than that the file is in order and may lack its
end: the code has nothing that could make it whole.  The comment "Read in the entire config
file" (`simplog.c:482`) is false of the code; `AsConfigured` speaks of the lines that are read.
`OptionsMean` leaves `-o` before `-f` to `OutputAsAsked`, which states the usage of the
repository's README and is false.

When `ReadError` holds `EofMeansStored` is false as well, and the code has no size or
digest that could make it true: `client.cc:107` takes a failed `fread` for the end of the
file.  `DisksWork` names both conditions.

Of the Node and Go programs some expectations are false and not stated: the words of a
file come in order only when appends never overlapped (`InOrderUnlessRaced`), a Node
client that asks for a file without content waits for ever (`ClientsEnd` leaves it out),
data that is read with a Go header is lost and its file refused (`Delivered` starts from
a header read alone), two Go clients of one name may leave words of both in the file
(`WordsOfNamesakes`), and a go-update client built before Go 1.15 loses its last buffer
(`OnlyTheTailIsLost`).

**Why the bounds are enough: libevent.**  The server keeps one `Status` and one header, so a second
client shows every confusion of two transfers and a third one every state left by a
sequence of two (killed, acknowledged, cut short).  Files of up to four words can be
shorter than, as long as and longer than a header, and can be cut in first, middle and
last pieces, and lose words in front, inside and at the end.  Two faults are a failure and another
one during the recovery from it.  In
`crowd` `c2`'s file begins with what decodes to the header of a one-word file, so that
the confusion of file and header leads to a write.  `MaxFaults` bounds `faults`, the only
counter; `BUFSIZ` is one word more than a header, so that a read takes a part of the file
with it.

**Boost.Asio.**  One file ends inside a block, one at the end of
a block, one is empty: these are the three ways in which eof can meet the buffer.  The
window is longer than a block and shorter than the stream, so that blocks of several
writes arrive in one read, blocks are cut, and a writer has to wait; with a window of 2 a
client stops in the backlog.  With three clients one is served, one waits in the backlog
and one connects after the server's end.  Two faults are, for example, a kill in the
middle of a file and another one while the next client sends the same name.

**Node.**  Three words are three chunks, or two of different length, under way at once:
the first, the last and one between.  Three clients are one for each thing that can be
asked for, and an error that one causes meets the other two at every step.

**Go.**  A first read of two words takes a header of one word alone or with data, and a
header of two words whole or in part.  Reads take up to two chunks, so that a file
comes in one read or two, or only its end does.  The file of `c3` ends in the word 0, of
which the slice consists at the start: data lost from its end goes unnoticed there, and
only there.  With `BUFIO = 1` one file is written through the buffer and the others past
it.  One fault ends a client or all goroutines at any step, and the server may start again.

**go-update.**  The file is as long as a buffer: sent whole it is flushed, and truncated
after its first word, by another client or its own, it leaves a tail that is lost.  Its two
words are different, and the first one missing shows as a zero.  Two clients that write one
file can each cut it short between the writes of the other; the third only reads that file.  One
fault ends a client or the server at any step of the others.

**Start.**  Two servers conflict, flush each other's log, or stand on two ports; the
client meets either or none.  The ports are 9000 and 2^16 more, 40000 and 50000, the last two
above the largest short.  A configuration is missing, has a cut last line and repeated,
unknown and unset values, has a line without "=", or flushes a file that cannot be opened.
Five that flush are combined with command lines that end each process at once: the
repository's own, a silent one, one in which a silent mode is undone and a line without "="
comes behind the first 1024 bytes, one with a log in a directory that is not writable, and
one with a device.  What matters there is whose removal and whose lines come first, and the
file is flushed before the command line is looked at.  Nothing loops, so no counter is
bounded: `gen` and `count` grow with the calls, which are finitely many.

**Deadlock** is not checked: all clients may have ended, servers wait for clients, and a
Node client may wait for ever.  That none else does is a property of its own
(`NobodyWaitsForEver`, `EveryClientEnds`, `ClientsEnd`).

**Fairness.**  Weak fairness of each callback of each process: libevent's loops poll
level-triggered sockets, so a callback whose event persists is called again.  Nothing is
assumed about starting a client or restarting the server, nor about which of several
connections a loop serves first.  For the Boost.Asio programs it is weak fairness of
everything that one process's `io_service::run` calls, again of each process: `run` takes
any handler that is ready, and there is one operation under way per process, so none is
overtaken.  For the Node programs it is weak fairness of a client's callbacks, of its
calls in the pool, and of the server's callbacks for one connection: the event loop and
the pool serve their queues in turn.  For the Go programs it is weak fairness of each
client, of each goroutine and of `Accept`: Go's scheduler preempts, also a goroutine that
spins, and blocking calls have a poller.  `Startup` has safety properties only and
assumes nothing.

## 5. What is proved

Every assumption is a named ASSUME of the module that declares the constants.  They are
weak: words are numbers (or any values), files are sequences of words, header fields fit,
an output name is not empty, a read is at least as long as a header (libevent), buffers
are not empty; in `GoUpdateAssumption` also that clients which create one file ask for one,
and that a client whose file is one of the server's asks for that file: a path determines
its base name.

`LibeventTransferProofs`, for every set of clients, files and names, number of faults and
in every regime:

- `TypeCorrect`: `Spec => []TypeOK`.  Not inductive alone: DATA sends the content of
  `buf`, which has a type only if HEAD was served before.  `RequestOrder` strengthens it
  (HEAD is the first request on a connection and never comes again).
- `HeadAlwaysFirst`: `Spec => []HeadComesFirst`, from the same invariant.
- `EverySentInOrder`: `Spec => []SentInOrder`.  `SentOrder` strengthens it: what has been
  sent and what is still in the evbuffer make up the stream as long as the connection
  takes it.  The three make up `CommonInv`.
- `StoredFromOne`: `Spec => []StoredFromOneStream`.  `Tails` says that what a client has
  sent is what the server has taken, its evbuffer, and what is on its way, in this order;
  with `SentInOrder` the evbuffer that `writefile` empties is a run of consecutive
  words of that client's stream, and so is the beginning that a kill leaves.  A full disk
  leaves some of these words, in their order (`GappedInPiece`).

`LibeventOrderlyProofs`:

- `FinStored`: `Spec => [](Orderly => FinMeansStored)`.
- `FrameBelongs`: `Spec => [](Orderly => FrameIsCurrent)`.

  The inductive invariant `OrderlyInv` says that one connection is open at most, and of
  that one: while Status is HEAD, all that the client has sent is the whole header or
  nothing, and is on its way (`HeaderComes`); while it is DATA, `frame` is that client's
  header and what it has sent is the header, the server's evbuffer and what is on its way
  (`FileComes`), or both evbuffers are empty after a short write (`FileLost`).  When the
  evbuffer has the length in the header, `SentOrder` and `WholeFile` make it the file
  itself, and nothing is left on the way.
- `NothingStranded`: `Spec => (Orderly => []NoRequestStranded)`.  `Turns` strengthens it:
  no request is left in the client's buffer, while one is on its way nothing of the
  client's is, and a FIN that is on its way has been asked for.
- `LibeventImplements`: `Spec => (Orderly => Transfer)`, with a medium that is `Lossy` if the
  disk can be full.  A client's start is `Begin`, a write after which FIN is asked for `Write`,
  another one or a kill inside it `Spoil`, serving FIN is `Tell`; all else stutters.

`AsioTransferProofs`, for every set of clients, files, names and addresses, every size of
buffers and window, and any number of faults.

- `TypeCorrect`: `Spec => []TypeOK`, inductive as it stands.
- `NothingIsLost`: `Spec => [](~DiskFull => NothingLost)`.  Two invariants strengthen it:
  `ConnInv` says which connection is served and what a client's stage means for its
  connection, `FileNamed` that the open file is the one of the client being served.  A
  header is decoded only when all of it is there, and then `NothingLost` itself makes it
  the one that the client sent (`HeaderIsPeers`).  `WholeOf` is `NothingLost` for one
  client; each step moves words from the front of one place to the end of the one before
  it, or leaves the stream alone (`Untouched`).
- `EofStored`: `Spec => [](DisksWork => EofMeansStored)`.  At eof nothing is on its way;
  if the client has shut down, nothing is left with it either, so what is on disk and in
  the buffer is the file (`Landed`).
- `AsioImplements`: `Spec => (DisksWork => Transfer)`.  A client's start is `Begin`, eof
  after a shutdown is `Write`; a request, a block, eof of a killed client and a kill of
  the server each leave a beginning of the file being sent (`Spoil`); all else stutters.

`NodeTransferProofs`, for every set of clients, files of any length and any number of
faults.  `TypeCorrect`, and `OnlyBadClientsThrow`: `Spec => []ThrownForBadClients`, from
one invariant, `Inv`: `ConnOf` relates a client's stage to its connection, above all that
a client which has ended its side has had data and the server has written.  `WordsInv`
adds what the calls under way have: words up to `size`, each in one call (`CallsOf`),
each word in the file or a call (`OnceOf`), and for a client without a race one call at
most, that of the words next in the file (`OrderOf`).  It gives `WordsOnce`, `InOrder`,
and with `Inv` `ExitComplete`.

`GoTransferProofs`, for every set of clients, files, names, headers and sizes of reads,
chunks and buffers, and any number of faults.

- `TypeCorrect`: `GoOf` strengthens it, which says what a client's and a goroutine's stage
  mean for what has been sent, read and created; in particular that data whose digest
  was compared is the file.
- `SliceInPlace`: `Spec => []DataInPlace`, by `CopyAt`'s lemmas on where words go.
- `WordsFromNamesakes`: `Spec => []WordsOfNamesakes`: whatever goroutines come between
  creation and write, a write puts its own words in front and leaves others' behind them.
- `GoImplements`: `Spec => Transfer`.  `LoneInv` says that a client's file is written once,
  and that a file only one client writes is empty until then.  `Create` and a short write
  are `Spoil`, the write is `Write`; nobody is told.

`GoUpdateProofs`, for every set of clients, files and buffer sizes.  One invariant, of
`TypeOK`, `LinkOf` (the goroutine's file is the one asked for, which was there at the
start), `WholeOf` (where the words are that were sent) and `Served`, gives `TypeCorrect`,
`NothingIsLost` (`Spec => []NothingLost`) and `ServedFilesKeep`
(`Spec => []ServedFilesKeepWords`).  The two depend on each other: a client that has
truncated the file it asks for writes back, at its own offset, what was sent; and this is
what the original has there, or a zero, only because the file had each word in its place
whenever it was read.

- `TheTailIsLost`: `Spec => []OnlyTheTailIsLost`.  `Tails` strengthens the invariant above:
  what a client with a buffer has written is a multiple of the buffer's size, and one that
  has ended well has nothing on its way and less than a full buffer left.  With
  `NothingLost` the rest is what the file's length leaves over.  `RestOfMultiple` does the
  division, for a size without a value.

`StartupProofs`, for every set of servers, clients and log files, every command line and
every configuration, of any length.

- `TypeCorrect`: `Spec => []TypeOK`.  `Base` strengthens it: each of a process's pending
  calls has arguments of its type, a call that is under way is at the head (`CallsOf`), a
  file that is open is one that there was (`OpenOK`), and a command line is read once, to
  what `parse_commandline` makes of it (`Parsed`).  Every step is one of `OwnStep` (the
  logger; it changes the first call and what belongs to it) or `MainStep` (`main`; it adds
  messages), and every invariant below is preserved by the one and the other.
- `FlushDies`: `Spec => []FlushDeath`.  `Flushes` says what `flushLog` knows at each of its
  steps: between the look and the removal the file is there, or cannot be removed, or
  another process has removed it.
- `OptionsAreMeant`: `Spec => []OptionsMean`, from `ParseMeans`: `parse_commandline` makes of
  a line of any length what the last option of each kind means, the port among them, and a
  last `-o` if it is behind each `-f`.
- `MeetsOnPort`: `Spec => []MeetOnPort`.  `Meeting`: who is past the command line had one
  that can be read, and who is connected has a server at the port that was asked for.
- `LinesAreKept`: `Spec => []LinesKept`.  `Numbered` strengthens it: no line has a number
  that its process has not reached, and no file has lines before it is created.
- `SetAsConfigured`: `Spec => []AsConfigured`.  `Configured`: a server has not read its
  configuration yet (`Fresh`), or each setting is as the configuration asks for or the calls
  still to do set it so (`AllDue`).  `WantedMeans` says what the fold over any number of lines
  asks for; the property is about those in the configuration's first 1024 bytes.
- `SilentOnTerminal`: `Spec => []SilentTerminal`.  `Quiet` says which calls come before
  `setLogSilentMode`, and how much a server may have shown until then by its logger
  (`ByLogger`, what it has shown less its usage texts): the two texts of `flushLog`.
- `FatalLeftInLog`: `Spec => []FatalInLog`.  `Fatals`: a process that is to end has the
  message in its log or as its only call, or another process has removed that log; and the
  file it has open is the one of that name (`HoldsLog`), or has been removed in the same way.
  That `default.log` and `server.log` can be opened is assumed.

`ParseMeans` and `WantedMeans` are about loops over sequences of any length.  Induction with
a predicate as parameter is out of the prover's reach, so it is done with a set instead:
`SetInduction` says that a set of numbers which holds 0, and with n also n + 1, holds all
of them, and follows from `LeastOf`.  It is applied to the set of the turns after which the
loop has made what the options, or lines, up to there mean (`Means`, `WishMeans`).  The
assumptions are that an option and a line are what `getopt` and `fgets` can deliver
(`IsCommandLine`, `IsConfig`).

`SequenceFacts` holds what these proofs need of `SubSeq` and `\o`.

**Only model-checked**: the liveness properties (`Finishes`, `NobodyWaitsForEver`, both
`EveryClientEnds`, `SomeFileArrives`, `Delivered`, `ClientsEnd`), which are out of the
prover's reach.  Every safety property of a passing run is a theorem.

## 6. Plan

Done, in this order: the libevent programs with their two regimes, the Boost.Asio
programs, the Go and go-update programs, the Node programs, the start with command line
and logger; the refinements of `FileTransfer` by the libevent, Boost.Asio and Go programs
checked and proved; every other safety property that a run checks proved, those of the
start last.

Left, by what it would add:

1. `FilenameCodec`: the length that the Boost.Asio header puts in front of a name, and
   names that do not fit the array, with the codec's round trip over short names.
2. One composition of `Startup` and `LibeventTransfer`, so that what is logged in the
   event loop is in the model too.

## 7. Not modelled

The echo server and the test program keep no state, the protobuf files are used by no
program, `cpp/1.cc` is a skeleton that is not built, `go-update/md5.go` prints a digest,
and CMake's output is generated.

Of the logger: `writeStackTrace`, which no program calls; dates; how a long line is
wrapped or, with a notice whose length is off by one (`simplog.c:221`), cut off; what goes
to standard error, `perror`'s text and an assertion's; the colour resets that are written to
the terminal in silent mode too; and what the heap may hold behind the 1024 bytes read
(`simplog.c:486`, nothing terminates them), which is taken to be zero.  A log that exists and
can be removed but not opened is left out, and so is one whose directory's permissions
change meanwhile.

Of the libevent programs: memory allocation and its failure, descriptor exhaustion
(`event_cb` never frees a bufferevent, `file_serv.c:243`), the time that a joined thread
blocks the loop, and byte-level layout of the header.

Of the Boost.Asio programs: names longer than the header's array (`fileinfo.cc:26`), and
the array being gone when a kernel takes only part of it at once (`client.cc:66`).  A
failing `fread` is one that returns 0; one that first returns part of a block ends the
same way.

Of the Go programs: a file that shrinks between `Stat` and `Read`, and two contents of
one digest.  Of the Node programs: a name that arrives in two data events.
