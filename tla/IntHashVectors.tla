---------------------------- MODULE IntHashVectors ---------------------------
(***************************************************************************)
(* Reference vectors for IntHash: the values int_hash returns, as        *)
(* computed by the C function compiled from int_array.c, for subscripts  *)
(* at every 16-bit and 32-bit boundary and table sizes from the         *)
(* schedule of grow_int_table (and the model's 2 and 3).                *)
(***************************************************************************)
EXTENDS IntHash

Vectors == {
   <<-2147483647 - 1, 2, 0>>
,  <<-2147483647 - 1, 3, 0>>
,  <<-2147483647 - 1, 13, 0>>
,  <<-2147483647 - 1, 127, 85>>
,  <<-2147483647 - 1, 1021, 32>>
,  <<-2147483647 - 1, 8191, 7228>>
,  <<-2147483647 - 1, 65497, 48010>>
,  <<-2147483647 - 1, 1048583, 3185>>
,  <<-2147483647 - 1, 1073741827, 118514559>>
,  <<-2147483647, 2, 1>>
,  <<-2147483647, 3, 0>>
,  <<-2147483647, 13, 12>>
,  <<-2147483647, 127, 43>>
,  <<-2147483647, 1021, 863>>
,  <<-2147483647, 8191, 4900>>
,  <<-2147483647, 65497, 31189>>
,  <<-2147483647, 1048583, 521944>>
,  <<-2147483647, 1073741827, 970482714>>
,  <<-65536, 2, 0>>
,  <<-65536, 3, 2>>
,  <<-65536, 13, 6>>
,  <<-65536, 127, 4>>
,  <<-65536, 1021, 698>>
,  <<-65536, 8191, 7531>>
,  <<-65536, 65497, 37506>>
,  <<-65536, 1048583, 415582>>
,  <<-65536, 1073741827, 910592791>>
,  <<-65537, 2, 0>>
,  <<-65537, 3, 2>>
,  <<-65537, 13, 5>>
,  <<-65537, 127, 119>>
,  <<-65537, 1021, 387>>
,  <<-65537, 8191, 1613>>
,  <<-65537, 65497, 46483>>
,  <<-65537, 1048583, 524884>>
,  <<-65537, 1073741827, 214450146>>
,  <<-1, 2, 0>>
,  <<-1, 3, 2>>
,  <<-1, 13, 3>>
,  <<-1, 127, 117>>
,  <<-1, 1021, 724>>
,  <<-1, 8191, 3700>>
,  <<-1, 65497, 55548>>
,  <<-1, 1048583, 497339>>
,  <<-1, 1073741827, 834142319>>
,  <<0, 2, 0>>
,  <<0, 3, 0>>
,  <<0, 13, 0>>
,  <<0, 127, 0>>
,  <<0, 1021, 0>>
,  <<0, 8191, 0>>
,  <<0, 65497, 0>>
,  <<0, 1048583, 0>>
,  <<0, 1073741827, 0>>
,  <<1, 2, 1>>
,  <<1, 3, 0>>
,  <<1, 13, 12>>
,  <<1, 127, 85>>
,  <<1, 1021, 831>>
,  <<1, 8191, 5863>>
,  <<1, 65497, 48676>>
,  <<1, 1048583, 518759>>
,  <<1, 1073741827, 851968155>>
,  <<2, 2, 0>>
,  <<2, 3, 0>>
,  <<2, 13, 11>>
,  <<2, 127, 43>>
,  <<2, 1021, 641>>
,  <<2, 8191, 3535>>
,  <<2, 65497, 31855>>
,  <<2, 1048583, 1037518>>
,  <<2, 1073741827, 630194483>>
,  <<3, 2, 1>>
,  <<3, 3, 2>>
,  <<3, 13, 4>>
,  <<3, 127, 84>>
,  <<3, 1021, 248>>
,  <<3, 8191, 7302>>
,  <<3, 65497, 21012>>
,  <<3, 1048583, 514942>>
,  <<3, 1073741827, 391643566>>
,  <<4, 2, 0>>
,  <<4, 3, 2>>
,  <<4, 13, 1>>
,  <<4, 127, 31>>
,  <<4, 1021, 657>>
,  <<4, 8191, 4089>>
,  <<4, 65497, 15506>>
,  <<4, 1048583, 498312>>
,  <<4, 1073741827, 765985397>>
,  <<5, 2, 1>>
,  <<5, 3, 0>>
,  <<5, 13, 1>>
,  <<5, 127, 28>>
,  <<5, 1021, 61>>
,  <<5, 8191, 5760>>
,  <<5, 65497, 10641>>
,  <<5, 1048583, 1031567>>
,  <<5, 1073741827, 510657235>>
,  <<6, 2, 0>>
,  <<6, 3, 2>>
,  <<6, 13, 7>>
,  <<6, 127, 69>>
,  <<6, 1021, 689>>
,  <<6, 8191, 1336>>
,  <<6, 65497, 65295>>
,  <<6, 1048583, 508991>>
,  <<6, 1073741827, 272106318>>
,  <<7, 2, 1>>
,  <<7, 3, 2>>
,  <<7, 13, 0>>
,  <<7, 127, 113>>
,  <<7, 1021, 426>>
,  <<7, 8191, 5233>>
,  <<7, 65497, 54582>>
,  <<7, 1048583, 1035128>>
,  <<7, 1073741827, 33555531>>
,  <<8, 2, 1>>
,  <<8, 3, 0>>
,  <<8, 13, 3>>
,  <<8, 127, 15>>
,  <<8, 1021, 631>>
,  <<8, 8191, 8114>>
,  <<8, 65497, 55053>>
,  <<8, 1048583, 1025745>>
,  <<8, 1073741827, 391120116>>
,  <<9, 2, 0>>
,  <<9, 3, 2>>
,  <<9, 13, 12>>
,  <<9, 127, 72>>
,  <<9, 1021, 590>>
,  <<9, 8191, 4478>>
,  <<9, 65497, 40961>>
,  <<9, 1048583, 499285>>
,  <<9, 1073741827, 697828475>>
,  <<10, 2, 0>>
,  <<10, 3, 1>>
,  <<10, 13, 2>>
,  <<10, 127, 8>>
,  <<10, 1021, 459>>
,  <<10, 8191, 3264>>
,  <<10, 65497, 45322>>
,  <<10, 1048583, 1043671>>
,  <<10, 1073741827, 954205618>>
,  <<11, 2, 1>>
,  <<11, 3, 2>>
,  <<11, 13, 5>>
,  <<11, 127, 21>>
,  <<11, 1021, 215>>
,  <<11, 8191, 5723>>
,  <<11, 65497, 37208>>
,  <<11, 1048583, 524459>>
,  <<11, 1073741827, 170394905>>
,  <<12, 2, 1>>
,  <<12, 3, 0>>
,  <<12, 13, 5>>
,  <<12, 127, 34>>
,  <<12, 1021, 68>>
,  <<12, 8191, 7816>>
,  <<12, 65497, 40928>>
,  <<12, 1048583, 518960>>
,  <<12, 1073741827, 1056442041>>
,  <<13, 2, 1>>
,  <<13, 3, 0>>
,  <<13, 13, 1>>
,  <<13, 127, 56>>
,  <<13, 1021, 564>>
,  <<13, 8191, 312>>
,  <<13, 65497, 15011>>
,  <<13, 1048583, 1026718>>
,  <<13, 1073741827, 322963194>>
,  <<100, 2, 0>>
,  <<100, 3, 2>>
,  <<100, 13, 10>>
,  <<100, 127, 63>>
,  <<100, 1021, 716>>
,  <<100, 8191, 1849>>
,  <<100, 65497, 27149>>
,  <<100, 1048583, 127>>
,  <<100, 1073741827, 1039153045>>
,  <<1000, 2, 0>>
,  <<1000, 3, 1>>
,  <<1000, 13, 3>>
,  <<1000, 127, 37>>
,  <<1000, 1021, 605>>
,  <<1000, 8191, 5103>>
,  <<1000, 65497, 39004>>
,  <<1000, 1048583, 621008>>
,  <<1000, 1073741827, 1021955180>>
,  <<65535, 2, 1>>
,  <<65535, 3, 0>>
,  <<65535, 13, 10>>
,  <<65535, 127, 74>>
,  <<65535, 1021, 739>>
,  <<65535, 8191, 2976>>
,  <<65535, 65497, 51598>>
,  <<65535, 1048583, 942042>>
,  <<65535, 1073741827, 603884432>>
,  <<65536, 2, 1>>
,  <<65536, 3, 1>>
,  <<65536, 13, 1>>
,  <<65536, 127, 49>>
,  <<65536, 1021, 346>>
,  <<65536, 8191, 6168>>
,  <<65536, 65497, 32391>>
,  <<65536, 1048583, 1047007>>
,  <<65536, 1073741827, 521158505>>
,  <<65537, 2, 0>>
,  <<65537, 3, 1>>
,  <<65537, 13, 0>>
,  <<65537, 127, 7>>
,  <<65537, 1021, 156>>
,  <<65537, 8191, 3840>>
,  <<65537, 65497, 15570>>
,  <<65537, 1048583, 517183>>
,  <<65537, 1073741827, 299384833>>
,  <<123456789, 2, 0>>
,  <<123456789, 3, 1>>
,  <<123456789, 13, 0>>
,  <<123456789, 127, 83>>
,  <<123456789, 1021, 41>>
,  <<123456789, 8191, 4781>>
,  <<123456789, 65497, 7556>>
,  <<123456789, 1048583, 965882>>
,  <<123456789, 1073741827, 193926649>>
,  <<2147483647, 2, 0>>
,  <<2147483647, 3, 1>>
,  <<2147483647, 13, 3>>
,  <<2147483647, 127, 65>>
,  <<2147483647, 1021, 602>>
,  <<2147483647, 8191, 6477>>
,  <<2147483647, 65497, 58498>>
,  <<2147483647, 1048583, 545114>>
,  <<2147483647, 1073741827, 715678720>>
}

=============================================================================
