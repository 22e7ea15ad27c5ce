----------------------------- MODULE TestParams -----------------------------
(***************************************************************************)
(* From the configuration of an assignment to the parameters of its test:  *)
(* throughput_config and latency_config (src/src/swarm/rpc.rs) with the    *)
(* defaults of types.rs, the second clamp of transfer_utils.rs and what    *)
(* the result says about the parameters (types.rs).  Sizes are in bytes.   *)
(*                                                                         *)
(* The assignment's optional fields are None or any number.                *)
(***************************************************************************)
EXTENDS Naturals

CONSTANTS
    None,     \* Option::None
    Choices   \* Choices[f]: the values a coordinator gives the field f

Fields == {"parallel_streams", "chunk_size_kb", "ping_timeout_ms"}

ASSUME NoneAssumption == None \notin Nat
ASSUME ChoicesAssumption == \A f \in Fields : Choices[f] \subseteq Nat \cup {None}

VARIABLE config   \* the `advanced` part of the assignment's TestConfig

KiB == 1024
MiB == 1024 * KiB

DEFAULT_PARALLEL_STREAMS == 4
DEFAULT_CHUNK_SIZE == MiB
DEFAULT_PING_TIMEOUT == 3000   \* milliseconds

OrElse(option, default) == IF option = None THEN default ELSE option

Clamp(n, low, high) == IF n < low THEN low ELSE IF n > high THEN high ELSE n

\* A variant that leaves the lower bound to the transfer.
UnboundedChunk(c) == Clamp(OrElse(c["chunk_size_kb"], DEFAULT_CHUNK_SIZE \div KiB) * KiB, 0, 16 * MiB)

\* throughput_config
ParallelStreams(c) == Clamp(OrElse(c["parallel_streams"], DEFAULT_PARALLEL_STREAMS), 1, 16)
ChunkSize(c) ==
    Clamp(IF c["chunk_size_kb"] = None THEN DEFAULT_CHUNK_SIZE ELSE c["chunk_size_kb"] * KiB,
          KiB, 16 * MiB)

\* latency_config; the interval between pings goes the same way
PingTimeout(c) == Clamp(OrElse(c["ping_timeout_ms"], DEFAULT_PING_TIMEOUT), 100, 10000)

\* send_data_on_stream, at both ends: the client passes its chunk size on in
\* the header of every stream.
WireChunk(chunk) == Clamp(chunk, KiB, 16 * MiB)

\* ThroughputResult::new: chunk_size_kb of the report.
ReportedKiB(chunk) == chunk \div KiB

------------------------------------------------------------------------------
NothingAsked == config = [f \in Fields |-> None]

\* The coordinator hands out an assignment with one setting changed.
NextAssignment ==
    \E f \in Fields : \E v \in Choices[f] : config' = [config EXCEPT ![f] = v]

Assignments == NothingAsked /\ [][NextAssignment]_config

------------------------------------------------------------------------------
(* Properties. *)

(***************************************************************************)
(* The chunk size is clamped twice, by the executor and by either sender,  *)
(* and divided once, for the report.  The chunk on the wire is the one     *)
(* that the report names.                                                  *)
(***************************************************************************)
WireChunkIsReported ==
    ReportedKiB(ChunkSize(config)) * KiB = WireChunk(ChunkSize(config))

(***************************************************************************)
(* types.rs documents the values that stand for a missing setting:         *)
(* chunk_size_kb as "Chunk size in KB (default: 64, range: 16-512)" and    *)
(* ping_timeout_ms as "Timeout for individual pings in milliseconds        *)
(* (default: 1000)".                                                       *)
(***************************************************************************)
DefaultsAsDocumented ==
    /\ config["chunk_size_kb"] = None => ChunkSize(config) = 64 * KiB
    /\ config["ping_timeout_ms"] = None => PingTimeout(config) = 1000
=============================================================================
