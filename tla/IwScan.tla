-------------------------------- MODULE IwScan --------------------------------
(***************************************************************************)
(* The two readers of `iw scan' in wifi_switch.c: parse_iw_scan, which     *)
(* makes the list the phone gets (the A733 build has the same code), and   *)
(* scan_target_band, which looks for the network the phone has chosen and  *)
(* decides on its band.  Both walk the same kind of text line by line, and *)
(* here they walk the same text together.                                  *)
(*                                                                         *)
(* A line is its key, its value and the keywords strstr finds in it.  An   *)
(* SSID is a model value; iw prints it as it is or, if it has bytes        *)
(* outside printable ASCII, with \xNN escapes.                             *)
(***************************************************************************)
EXTENDS Integers, Sequences

CONSTANTS
    Bss,        \* what is on the air: records of ssid, freq, signal and sec
    Escaped,    \* SSIDs that iw prints with escapes
    Words,      \* Words[s]: the keywords that occur in the SSID s
    Hidden,     \* the empty SSID
    MaxBss,     \* BSS blocks in a scan
    OutCap      \* MAX_ENTRIES (64)

\* In the ranges that freq_to_channel accepts an access point is at the centre
\* of a channel: 1 to 13, "UNII-1 and UNII-3" (36 to 48 and 149 to 165).
OnChannel(f) ==
    /\ f \in 2412 .. 2472 => (f - 2407) % 5 = 0
    /\ f \in 5180 .. 5240 => (f - 5180) % 20 = 0
    /\ f \in 5745 .. 5825 => (f - 5745) % 20 = 0

ASSUME AirAssumption ==
    /\ \A b \in Bss : /\ b.freq \in Nat /\ OnChannel(b.freq)
                      /\ b.sec \in {"open", "wep", "wpa", "wpa2", "wpa3", "mixed", "eap"}
    /\ OutCap \in Nat

VARIABLES
    air,        \* the BSSs of the scan, in the order iw prints them
    want,       \* the ssid scan_target_band looks for
    blk, ln,    \* the line that is read next: line ln of the block of air[blk]
    cur,        \* parse_iw_scan: the BSS being read
    out,        \* parse_iw_scan: the list
    cur_freq, hit_24, hit_5,   \* scan_target_band
    walk        \* "lines", or "done" after the last line

parseVars == <<air, want, blk, ln, cur, out, cur_freq, hit_24, hit_5, walk>>

\* What iw prints for an SSID, and decode_iw_ssid.
Printed(s) == [esc |-> s \in Escaped, of |-> s]
decode_iw_ssid(t) == t.of

Line(key, val, words) == [key |-> key, val |-> val, words |-> words]

\* A line that neither reader takes anything from.
Other == Line("other", 0, {})

\* The lines of a security scheme: a section header, then its suites.
SecLines ==
    [open  |-> <<Other, Other>>,
     wep   |-> <<Other, Other>>,
     wpa   |-> <<Line("WPA", 0, {}), Line("suites", 0, {"PSK"})>>,
     wpa2  |-> <<Line("RSN", 0, {}), Line("suites", 0, {"PSK"})>>,
     wpa3  |-> <<Line("RSN", 0, {}), Line("suites", 0, {"SAE"})>>,
     mixed |-> <<Line("RSN", 0, {}), Line("suites", 0, {"PSK", "SAE"})>>,
     eap   |-> <<Line("RSN", 0, {}), Line("suites", 0, {"EAP"})>>]

\* The block iw prints for a BSS; freq and signal may be missing (0).
Block(b) ==
    <<Line("BSS", 0, {}),
      IF b.freq = 0 THEN Other ELSE Line("freq", b.freq, {}),
      Line("capability", b.sec # "open", {}),
      IF b.signal = 0 THEN Other ELSE Line("signal", b.signal, {}),
      Line("SSID", Printed(b.ssid), Words[b.ssid]),
      SecLines[b.sec][1],
      SecLines[b.sec][2]>>

BlockLen == 7

\* The memset of bss_parse_t; the has_... fields are the set has.
Cleared == [ssid |-> Hidden, freq |-> 0, signal |-> 0, has |-> {}]

ParseInit ==
    /\ air \in UNION {[1 .. n -> Bss] : n \in 1 .. MaxBss}
    /\ want \in {b.ssid : b \in Bss} \ {Hidden}
    /\ blk = 1 /\ ln = 1 /\ cur = Cleared /\ out = <<>>
    /\ cur_freq = 0 /\ hit_24 = 0 /\ hit_5 = 0
    /\ walk = "lines"

In24(f) == f >= 2400 /\ f < 2500
In5(f) == f >= 5000 /\ f < 6000
freq_to_scan_band(f) == IF In24(f) THEN 0 ELSE IF In5(f) THEN 1 ELSE -1

derive_auth_type(has) ==
    IF "SAE" \in has /\ "PSK" \notin has THEN "WPA3_SAE"
    ELSE IF "EAP" \in has THEN "ENTERPRISE"
    ELSE IF "RSN" \in has /\ has \cap {"PSK", "SAE"} # {} THEN "WPA2_PSK"
    ELSE IF {"WPA", "PSK"} \subseteq has THEN "WPA_PSK"
    ELSE IF "privacy" \in has THEN "WEP" ELSE "OPEN"

\* Hidden, frequency-less and out-of-band BSSs are dropped, and those that the
\* list has no room for.
commit_bss(c) ==
    IF \/ c.ssid = Hidden
       \/ freq_to_scan_band(c.freq) < 0
       \/ Len(out) >= OutCap
    THEN out
    ELSE Append(out, [ssid |-> c.ssid, rssi |-> IF c.signal = 0 THEN -100 ELSE c.signal,
                      auth |-> derive_auth_type(c.has), band |-> freq_to_scan_band(c.freq)])

AtLine == walk = "lines" /\ blk <= Len(air)
CurLine == Block(air[blk])[ln]
NextLine == IF ln < BlockLen THEN ln' = ln + 1 /\ blk' = blk ELSE ln' = 1 /\ blk' = blk + 1

\* Mutant: only a BSS that made it into the list is cleared.
BssLineKeeps ==
    /\ AtLine /\ CurLine.key = "BSS"
    /\ out' = commit_bss(cur)
    /\ cur' = IF out' = out THEN cur ELSE Cleared
    /\ cur_freq' = 0
    /\ NextLine
    /\ UNCHANGED <<air, want, hit_24, hit_5, walk>>

\* A "BSS " header ends the block before it.
BssLine ==
    /\ AtLine /\ CurLine.key = "BSS"
    /\ out' = commit_bss(cur)
    /\ cur' = Cleared
    /\ cur_freq' = 0
    /\ NextLine
    /\ UNCHANGED <<air, want, hit_24, hit_5, walk>>

\* Every line is searched for the keywords, an SSID line as well.
Flags(l) ==
    l.words \cup CASE l.key = "capability" -> IF l.val THEN {"privacy"} ELSE {}
                  [] l.key \in {"RSN", "WPA"} -> {l.key}
                  [] OTHER -> {}

\* What a line adds to the BSS being read.
Learn(c, l) ==
    [ssid |-> IF l.key = "SSID" THEN decode_iw_ssid(l.val) ELSE c.ssid,
     freq |-> IF l.key = "freq" THEN l.val ELSE c.freq,
     signal |-> IF l.key = "signal" THEN l.val ELSE c.signal,
     has |-> c.has \cup Flags(l)]

\* What scan_target_band takes from a line: the frequency, and at the name it
\* looks for the first hit in each band.
SearchLine(l) ==
    LET hit == l.key = "SSID" /\ cur_freq # 0 /\ l.val = [esc |-> FALSE, of |-> want]
    IN  /\ cur_freq' = IF l.key = "freq" THEN l.val ELSE cur_freq
        /\ hit_24' = IF hit /\ In24(cur_freq) /\ hit_24 = 0 THEN cur_freq ELSE hit_24
        /\ hit_5' = IF hit /\ In5(cur_freq) /\ hit_5 = 0 THEN cur_freq ELSE hit_5

FieldLine ==
    /\ AtLine /\ CurLine.key # "BSS"
    /\ cur' = Learn(cur, CurLine)
    /\ SearchLine(CurLine)
    /\ NextLine
    /\ UNCHANGED <<air, want, out, walk>>

\* The end of the text: the last block is committed too.
LastLine ==
    /\ walk = "lines" /\ blk > Len(air)
    /\ out' = commit_bss(cur)
    /\ cur' = Cleared
    /\ walk' = "done"
    /\ UNCHANGED <<air, want, blk, ln, cur_freq, hit_24, hit_5>>

ParseNext == BssLine \/ FieldLine \/ LastLine

ParseSpec == ParseInit /\ [][ParseNext]_parseVars

\* freq_to_channel: -1 for what is not on the white list.
freq_to_channel(f, band) ==
    IF band = "2.4G"
    THEN IF f \in 2412 .. 2472 THEN (f - 2407) \div 5 ELSE IF f = 2484 THEN 14 ELSE -1
    ELSE IF f \in 5180 .. 5240 \cup 5745 .. 5825 THEN (f - 5000) \div 5 ELSE -1

\* Mutant: the hit on 2.4 GHz wins.
scan_target_band_24 ==
    LET band == IF hit_24 # 0 THEN "2.4G" ELSE "5G"
        freq == IF hit_24 # 0 THEN hit_24 ELSE hit_5
    IN  IF freq = 0 \/ freq_to_channel(freq, band) <= 0
        THEN [rc |-> -1] ELSE [rc |-> 0, band |-> band, freq |-> freq]

\* What scan_target_band makes of one usable scan: 5G is preferred, and a
\* frequency off the white list is refused.  Around it the code tries up to
\* MAX_ATTEMPTS scans, each from hit_24 = hit_5 = 0, after one that failed or
\* had no hit; the model stops at the first, so its -1 without a hit is an
\* attempt that ends and not yet the answer.
scan_target_band ==
    LET band == IF hit_5 # 0 THEN "5G" ELSE "2.4G"
        freq == IF hit_5 # 0 THEN hit_5 ELSE hit_24
    IN  IF freq = 0 \/ freq_to_channel(freq, band) <= 0
        THEN [rc |-> -1] ELSE [rc |-> 0, band |-> band, freq |-> freq]

\* The frequencies write_wpa_config lets wpa_supplicant try.
freq_list(band) ==
    IF band = "5G" THEN {5180, 5200, 5220, 5240, 5745, 5765, 5785, 5805, 5825}
    ELSE {2412, 2417, 2422, 2427, 2432, 2437, 2442, 2447, 2452, 2457, 2462}
-----------------------------------------------------------------------------
(* Properties *)

Listable(b) == b.ssid # Hidden /\ freq_to_scan_band(b.freq) >= 0

\* The authentication a BSS really asks for.
TrueAuth ==
    [open |-> "OPEN", wep |-> "WEP", wpa |-> "WPA_PSK", wpa2 |-> "WPA2_PSK",
     wpa3 |-> "WPA3_SAE", mixed |-> "WPA2_PSK", eap |-> "ENTERPRISE"]

\* What the entry e of the list says of the BSS b.  (Only the authentication
\* of a network with a keyword in its name may be wrong.)
Describes(e, b) ==
    /\ e.ssid = b.ssid
    /\ e.band = freq_to_scan_band(b.freq)
    /\ e.rssi = IF b.signal = 0 THEN -100 ELSE b.signal
    /\ Words[b.ssid] = {} => e.auth = TrueAuth[b.sec]

\* Entry k of the list is the BSS air[at[k]]: of the first m, the list has the
\* first OutCap that can be listed, in the order of the scan.
ListedAt(at, m) ==
    /\ \A j, k \in DOMAIN out : j < k => at[j] < at[k]
    /\ \A k \in DOMAIN out : Listable(air[at[k]]) /\ Describes(out[k], air[at[k]])
    /\ \A j \in 1 .. m : Listable(air[j]) =>
          \/ \E k \in DOMAIN out : at[k] = j
          \/ Len(out) = OutCap /\ \A k \in DOMAIN out : at[k] < j

Listed(m) == Len(out) <= OutCap /\ \E at \in [DOMAIN out -> 1 .. m] : ListedAt(at, m)

\* The list is the first OutCap networks that can be listed, in the order of
\* the scan, each with its own SSID, signal, band and authentication: nothing
\* of a block, be it listed or dropped, leaks into the next one.
ListsTheAir == walk = "done" => Listed(Len(air))

\* The BSSs of the wanted SSID in a band, and the first of them.
InBand(f, band) == IF band = "5G" THEN In5(f) ELSE In24(f)
IsWanted(k, band) == air[k].ssid = want /\ InBand(air[k].freq, band)
Wanted(band) == {k \in DOMAIN air : IsWanted(k, band)}
First(S) == CHOOSE k \in S : \A j \in S : k <= j

\* An SSID that iw prints as it is: the first BSS on 5G decides, then the
\* first one on 2.4G, and if that one is off the white list the join is refused,
\* also when another BSS of the network could be used (this says what is chosen,
\* not that the choice is a good one).  The frequency found is one
\* wpa_supplicant is told to try; only channels 12 to 14 are on the white list
\* of freq_to_channel and not on that of write_wpa_config.
FindsTarget ==
    walk = "done" /\ want \notin Escaped =>
        LET band == IF Wanted("5G") # {} THEN "5G" ELSE "2.4G"
            f == air[First(Wanted(band))].freq
            ch == freq_to_channel(f, band)
        IN  IF Wanted(band) = {} \/ ch < 0 THEN scan_target_band = [rc |-> -1]
            ELSE /\ scan_target_band = [rc |-> 0, band |-> band, freq |-> f]
                 /\ ch \notin 12 .. 14 => f \in freq_list(band)

-----------------------------------------------------------------------------
(* What comments say that the code does not do *)

\* "-1 means the SSID was not seen at all" (wifi_switch.c:412): a network on
\* the list, all of whose BSSs are on channels of the white list, is found when
\* the phone chooses it.
ListedIsFound ==
    /\ walk = "done"
    /\ \E k \in DOMAIN out : out[k].ssid = want
    /\ \A k \in DOMAIN air : air[k].ssid = want =>
          freq_to_channel(air[k].freq, IF In5(air[k].freq) THEN "5G" ELSE "2.4G") > 0
    => scan_target_band.rc = 0
=============================================================================
