------------------------- MODULE MediaStreamSettings -------------------------
(***************************************************************************)
(* ctsConfig::MediaStreamSettings::CalculateTransferSize (ctsConfig.h): the *)
(* media-stream settings given on the command line (bits per second,       *)
(* frames per second, buffer depth and stream length in seconds) are       *)
(* checked and turned into the frame size, the frame count, the client's   *)
(* buffered frames and the total bytes of the stream.                       *)
(*                                                                         *)
(* The fields are ctsSafeInt types (ctsUnsignedLong, ctsSignedLongLong;    *)
(* their header is not in src): a product that overflows its type throws  *)
(* ctsSafeIntException, which wmain catches (ctsTraffic.cpp:65). The       *)
(* total byte count is computed from static_casts to the built-in types,   *)
(* so that product wraps modulo 2^64. Widths are scaled: unsigned long has *)
(* UlongBits bits and the 64-bit types twice as many.                       *)
(***************************************************************************)
EXTENDS Integers

CONSTANT UlongBits   \* the width of unsigned long (32, scaled)

\* MAXULONG32
MaxUlong == 2^UlongBits - 1

\* 2^64: the modulus of unsigned long long arithmetic
UllModulus == 2^(2 * UlongBits)

\* "The frame size is too small - it must be at least 40 bytes" (not scaled)
MinFrameSizeBytes == 40

\* the settings as ctsConfig sets them from the command line
Settings == [bps : Nat, fps : Nat, depth : Nat, secs : Nat]

\* ctsSafeInt multiplication of two ctsUnsignedLong throws when the product overflows
SafeUlongOverflows(a, b) == a * b > MaxUlong

\* the outcomes: it returns, a FAIL_FAST_IF_MSG on the arguments, the
\* frame-alignment FAIL_FAST, or one of the two exceptions
Outcomes == {"returned", "argument_fail_fast", "alignment_fail_fast",
             "invalid_argument", "safe_int_exception"}

\* the struct after the call: the settings, the computed fields, the total and the outcome
Result(s, buffered, frameSize, frames, total, outcome) ==
    [bps |-> s.bps, fps |-> s.fps, depth |-> s.depth, secs |-> s.secs,
     buffered |-> buffered, frame_size |-> frameSize, frames |-> frames,
     total |-> total, outcome |-> outcome]

-----------------------------------------------------------------------------
\* mutant: the total is not rounded down to a whole number of frames
AlignedTotalNone(bytes, frames) == bytes

(* "guarantee that the total stream length aligns evenly with              *)
(* total_frames": drop the remainder of the division by the frame count.   *)
AlignedTotal(bytes, frames) ==
    IF bytes % frames # 0 THEN bytes - (bytes % frames) ELSE bytes

(* StreamLengthSeconds * FramesPerSecond, a ctsUnsignedLong product.       *)
StreamFrames(s) ==
    [overflow |-> SafeUlongOverflows(s.secs, s.fps), frames |-> s.secs * s.fps]

(* CalculateTransferSize for settings s, on a client or a server. Each     *)
(* test returns at the first check that fails; the fields keep 0 where the *)
(* call stopped before assigning them.                                      *)
CalculateTransferSize(s, isListening) ==
    LET buffered == IF isListening THEN 0 ELSE s.depth * s.fps
        sf == StreamFrames(s)
        bytes == ((s.bps \div 8) * s.secs) % UllModulus
        total == AlignedTotal(bytes, sf.frames)
        frameSize == total \div sf.frames
        Stop(b, outcome) == Result(s, b, 0, 0, 0, outcome)
    IN CASE s.bps = 0 \/ s.fps = 0 \/ s.secs = 0 \/ s.bps % 8 # 0 ->
              Stop(0, "argument_fail_fast")
         [] ~isListening /\ s.depth = 0 ->
              Stop(0, "argument_fail_fast")
         [] ~isListening /\ SafeUlongOverflows(s.depth, s.fps) ->
              Stop(0, "safe_int_exception")
         [] ~isListening /\ (buffered < s.depth \/ buffered < s.fps) ->
              Stop(buffered, "invalid_argument")
         [] sf.overflow ->
              Stop(buffered, "safe_int_exception")
         [] sf.frames > MaxUlong ->
              Stop(buffered, "invalid_argument")
         [] frameSize > MaxUlong \/ frameSize < MinFrameSizeBytes ->
              Stop(buffered, "invalid_argument")
         [] frameSize * sf.frames # total ->
              Result(s, buffered, frameSize, sf.frames, total, "alignment_fail_fast")
         [] OTHER ->
              Result(s, buffered, frameSize, sf.frames, total, "returned")

=============================================================================
