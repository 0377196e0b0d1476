----------------------- MODULE FunctionDescriptions -----------------------
(***************************************************************************)
(* What the RAN function descriptions say, against what the message        *)
(* helpers report.  A metric is a family and a member of it (a bin, a      *)
(* neighbour), 0 when it stands alone; the names of UE metrics end in      *)
(* .UEID, which the family of a list makes superfluous here.               *)
(***************************************************************************)
EXTENDS Integers, Sequences

Alone(family) == <<family, 0>>
Metrics(families) == [k \in DOMAIN families |-> Alone(families[k])]
Members(family, numbers) == [k \in DOMAIN numbers |-> <<family, numbers[k]>>]

McsBins(numbers) == Members("CARR.PDSCHMCSDist.Bin", numbers)
SinrBins == Members("L1M.RS-SINR.Bin", <<34, 46, 58, 70, 82, 94, 127>>)

\* A bin whose number is written with a full-width digit is another metric.
WideBins(numbers) == Members("CARR.PDSCHMCSDist.Bin (full width)", numbers)

\* Three metrics for each of the eight neighbours, and of the serving cell.
Neighbours ==
  LET family == <<"HO.TrgtCellQual.RS-SINR", "HO.TrgtCellQual.RS-SINR-Converted",
                  "HO.TrgtCellQual">>
  IN  [k \in 1..24 |-> <<family[1 + ((k - 1) % 3)], 1 + ((k - 1) \div 3)>>]
ServingCell ==
  Metrics(<<"HO.SrcCellQual.RS-SINR", "HO.SrcCellQual.RS-SINR-Converted", "HO.SrcCellID">>)

-----------------------------------------------------------------------------
(* The metrics a KpmFunctionDescription advertises                         *)

LteUeAdvertised ==
  Metrics(<<"UEID", "DRB.PdcpSduVolumeDl_Filter", "Tot.PdcpSduNbrDl", "DRB.PdcpSduBitRateDl",
            "DRB.PdcpSduDelayDl", "DRB.EstabSucc.5QI", "DRB.RelActNbr.5QI">>)

\* Two metrics are advertised twice, under two identifiers each.
NrUeAdvertised ==
  Metrics(<<"UEID", "DRB.EstabSucc.5QI", "DRB.RelActNbr.5QI", "QosFlow.PdcpPduVolumeDL_Filter",
            "DRB.PdcpPduNbrDl.Qos", "TB.TotNbrDl.1", "DRB.RelActNbr.5QI",
            "TB.TotNbrDlInitial", "TB.TotNbrDlInitial.Qpsk", "TB.TotNbrDlInitial.16Qam",
            "TB.TotNbrDlInitial.64Qam", "TB.ErrTotalNbrDl.1",
            "QosFlow.PdcpPduVolumeDL_Filter", "RRU.PrbUsedDl">>)
    \o McsBins(<<1, 2, 3, 4, 5, 6>>) \o SinrBins \o Metrics(<<"DRB.BufferSize.Qos">>)
    \o ServingCell \o Neighbours \o Metrics(<<"DRB.UEThpDl">>)

LteCellAdvertised ==
  Metrics(<<"cellID", "DRB.PdcpSduDelayDl", "pdcpBytesUl", "pdcpBytesDl", "numActiveUes">>)

NrCellAdvertised ==
  Metrics(<<"cellID", "TB.TotNbrDl.1", "TB.TotNbrDlInitial", "numActiveUes",
            "TB.TotNbrDlInitial.Qpsk", "TB.TotNbrDlInitial.16Qam", "TB.TotNbrDlInitial.64Qam",
            "RRU.PrbUsedDl", "TB.ErrTotalNbrDl.1", "QosFlow.PdcpPduVolumeDL_Filter">>)
    \o McsBins(<<1, 2>>) \o WideBins(<<3, 4, 5, 6>>) \o SinrBins
    \o Metrics(<<"DRB.BufferSize.Qos", "DRB.MeanActiveUeDl", "PRB.AvailableDl",
                 "RRB.AvailablePUl", "DRB.QCI", "RRB.UseageDl", "RRB.UseageUl">>)

\* Mutant: the node types as the comment over make_report_style has them.
MetricsOfCommented(cell, nbType) ==
  CASE ~cell /\ nbType = 2 -> LteUeAdvertised
    [] ~cell /\ nbType = 1 -> NrUeAdvertised
    [] cell /\ nbType = 2 -> LteCellAdvertised
    [] cell /\ nbType = 1 -> NrCellAdvertised
    [] OTHER -> <<>>

\* make_report_style: node type 0 is LTE, 1 is NR, any other has no metrics.
MetricsOf(cell, nbType) ==
  CASE ~cell /\ nbType = 0 -> LteUeAdvertised
    [] ~cell /\ nbType = 1 -> NrUeAdvertised
    [] cell /\ nbType = 0 -> LteCellAdvertised
    [] cell /\ nbType = 1 -> NrCellAdvertised
    [] OTHER -> <<>>

\* The report styles 1 to 5: the format of their messages and their metrics,
\* identified by their position.
ReportStyles(nbType) ==
  << [message |-> 1, metrics |-> MetricsOf(TRUE, nbType)],
     [message |-> 1, metrics |-> MetricsOf(FALSE, nbType)],
     [message |-> 2, metrics |-> MetricsOf(FALSE, nbType)],
     [message |-> 3, metrics |-> MetricsOf(TRUE, nbType)],
     [message |-> 3, metrics |-> MetricsOf(FALSE, nbType)] >>

\* A description: what kind, and for which node type.  That of the control
\* service model is always the same: style 1, action 2, parameters 1 and 2.
KpmDescription(nbType) == [kind |-> "kpm", nbType |-> nbType]
RcDescription == [kind |-> "rc", nbType |-> 1]

-----------------------------------------------------------------------------
(* What the helpers report: cells in Format 1, UEs in Format 2             *)

LteUeReport ==
  Metrics(<<"UEID", "DRB.PdcpSduVolumeDl_Filter", "Tot.PdcpSduNbrDl", "DRB.PdcpSduBitRateDl",
            "DRB.PdcpSduDelayDl", "DRB.EstabSucc.5QI", "DRB.RelActNbr.5QI">>)

NrUeReport ==
  Metrics(<<"UEID", "DRB.EstabSucc.5QI", "DRB.RelActNbr.5QI", "QosFlow.PdcpPduVolumeDL_Filter",
            "DRB.PdcpPduNbrDl.Qos", "TB.TotNbrDl.1", "TB.TotNbrDlInitial",
            "TB.TotNbrDlInitial.Qpsk", "TB.TotNbrDlInitial.16Qam", "TB.TotNbrDlInitial.64Qam",
            "TB.ErrTotalNbrDl.1", "QosFlow.PdcpPduVolumeDL_Filter", "RRU.PrbUsedDl">>)
    \o McsBins(<<1, 2, 3, 4, 5, 6>>) \o SinrBins \o Metrics(<<"DRB.BufferSize.Qos">>)
    \o ServingCell \o Neighbours \o Metrics(<<"DRB.UEThpDl">>)

LteCellReport ==
  Metrics(<<"cellID", "DRB.PdcpSduDelayDl", "pdcpBytesUl", "pdcpBytesDl", "numActiveUes">>)

\* reduced: m_reducedPmValues leaves the transport blocks out.
NrCellReport(reduced) ==
  Metrics(<<"cellID">>)
    \o (IF reduced THEN <<>> ELSE Metrics(<<"TB.TotNbrDl.1", "TB.TotNbrDlInitial">>))
    \o Metrics(<<"numActiveUes", "TB.TotNbrDlInitial.Qpsk", "TB.TotNbrDlInitial.16Qam",
                 "TB.TotNbrDlInitial.64Qam", "RRU.PrbUsedDl", "TB.ErrTotalNbrDl.1",
                 "QosFlow.PdcpPduVolumeDL_Filter">>)
    \o McsBins(<<1, 2, 3, 4, 5, 6>>) \o SinrBins
    \o Metrics(<<"DRB.BufferSize.Qos", "DRB.MeanActiveUeDl", "PRB.AvailableDl",
                 "RRB.AvailablePUl", "DRB.QCI", "RRB.UseageDl", "RRB.UseageUl">>)

\* The reports of a node, with the format of their messages.
Reports(nbType) ==
  IF nbType = 0
  THEN {[message |-> 1, metrics |-> LteCellReport], [message |-> 2, metrics |-> LteUeReport]}
  ELSE {[message |-> 1, metrics |-> NrCellReport(FALSE)],
        [message |-> 1, metrics |-> NrCellReport(TRUE)],
        [message |-> 2, metrics |-> NrUeReport]}
===========================================================================
