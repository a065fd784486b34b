------------------------------ MODULE CanDriver ------------------------------
(***************************************************************************)
(* The CANopenNode driver glue of rtemskit (lib/canopen/CO_driver.c) over  *)
(* the CAN controller it drives through one file descriptor.               *)
(*                                                                         *)
(* The driver side is CO_CANmodule_t with its rxArray and txArray. The     *)
(* controller side is what the ioctl and write calls act on: the attribute *)
(* mode, whether it is started, the receive filters attached to it and its *)
(* transmit queue. The controller is not in this repository; every ioctl   *)
(* may fail and write answers -EBUSY when its queue is full, or another    *)
(* error. CO_CANsend and CO_CANclearPendingSyncPDOs run under              *)
(* CO_LOCK_CAN_SEND and are atomic steps; the CANopen threads that call    *)
(* the other functions call them one at a time, so each is one step.       *)
(***************************************************************************)
EXTENDS Integers, Sequences

CONSTANTS
    RxSize,     \* rxSize given to CO_CANmodule_init (receive objects)
    TxSize,     \* txSize given to CO_CANmodule_init (transmit objects)
    MaxFilter,  \* CONFIG_CAN_MAX_FILTER: filters the controller can attach
    TxQueue,    \* frames the controller's transmit queue holds
    MaxFds,     \* descriptors the open file table has for the device
    CANFd       \* the number open() returns for the device

ASSUME RxSize \in 1 .. MaxFilter /\ TxSize \in Nat \ {0}
ASSUME TxQueue \in Nat \ {0} /\ MaxFds \in Nat \ {0} /\ CANFd \in Nat

Rx == 0 .. RxSize - 1
Tx == 0 .. TxSize - 1
\* filter_id of a receive object without a filter: -1 and
\* CAN_NO_FREE_FILTER are both negative and are never attached
NoFilter == -1
FilterIds == 0 .. MaxFilter - 1

VARIABLES
    \* CO_CANmodule_t
    initialized, CANnormal, CANerrorStatus,
    filterId,     \* rxArray[i].filter_id
    bufferFull,   \* txArray[i].bufferFull
    syncFlag,     \* txArray[i].syncFlag
    emcy,         \* CO_errorReport calls made, by error code
    \* the controller
    fds,          \* descriptors open on the device
    mode,         \* CAN_IOC_SET_ATTR mode: "normal" or "silent"
    started,      \* CAN_IOC_START done and no CAN_IOC_STOP since
    attached,     \* ids of the filters attached (CAN_IOC_ATTACH_FILTER)
    queue         \* transmit queue: the tx objects whose frames wait

drv == <<initialized, CANnormal, CANerrorStatus, filterId, bufferFull,
         syncFlag, emcy>>
ctl == <<fds, mode, started, attached, queue>>
vars == <<drv, ctl>>

Init ==
    /\ initialized = FALSE /\ CANnormal = FALSE /\ CANerrorStatus = 0
    /\ filterId = [i \in Rx |-> NoFilter]
    /\ bufferFull = [i \in Tx |-> FALSE] /\ syncFlag = [i \in Tx |-> FALSE]
    /\ emcy = {}
    /\ fds = 0 /\ mode = "silent" /\ started = FALSE /\ attached = {}
    /\ queue = <<>>

(***************************************************************************)
(* Driver functions                                                        *)
(***************************************************************************)

\* CO_CANdeviceOpen: open() takes a descriptor, or fails when none is
\* left; CAN_IOC_SET_ATTR sets normal mode and the bit rate, and when it
\* fails the descriptor is closed again. Only on success is the module
\* marked initialized (by CO_CANmodule_init).
CO_CANdeviceOpen ==
    \/ /\ fds < MaxFds
       /\ mode' = "normal" /\ fds' = fds + 1 /\ initialized' = TRUE
    \/ /\ fds < MaxFds
       /\ UNCHANGED <<fds, mode, initialized>>
    \/ /\ fds = MaxFds
       /\ UNCHANGED <<fds, mode, initialized>>

\* CO_CANmodule_init when not yet initialized (rxSize <= MAX_FILTER by
\* assumption): the object variables and both arrays are reset before
\* CO_CANdeviceOpen, so they are reset whatever it returns
CO_CANmodule_init ==
    /\ ~initialized
    /\ CANnormal' = FALSE /\ CANerrorStatus' = 0
    /\ filterId' = [i \in Rx |-> NoFilter]
    /\ bufferFull' = [i \in Tx |-> FALSE]
    /\ CO_CANdeviceOpen
    /\ UNCHANGED <<syncFlag, emcy, started, attached, queue>>

\* CO_CANdeviceClose: CAN_IOC_SET_ATTR to silent mode, the descriptor is
\* not closed; on success CO_CANmodule_disable marks the module
\* uninitialised and not in normal mode
CO_CANdeviceClose ==
    \/ mode' = "silent" /\ initialized' = FALSE /\ CANnormal' = FALSE
    \/ UNCHANGED <<mode, initialized, CANnormal>>

\* CO_CANmodule_disable: the loop runs rxSize times on rxArray[0] (buffer
\* is never advanced) and passes its filter_id as the file descriptor of
\* CAN_IOC_DETACH_FILTER, so the request reaches the controller only if
\* that id equals the device's descriptor; then rxArray[0].filter_id = -1.
\* Then CO_CANdeviceClose.
CO_CANmodule_disable ==
    /\ initialized
    /\ attached' = IF filterId[0] = CANFd THEN attached \ {CANFd} ELSE attached
    /\ filterId' = [filterId EXCEPT ![0] = NoFilter]
    /\ CO_CANdeviceClose
    /\ UNCHANGED <<CANerrorStatus, bufferFull, syncFlag, emcy, fds, started,
                   queue>>

\* CO_CANsetConfigurationMode: CAN_IOC_STOP, result ignored
CO_CANsetConfigurationMode ==
    /\ initialized
    /\ started' = FALSE
    /\ UNCHANGED <<drv, fds, mode, attached, queue>>

\* CO_CANsetNormalMode: CAN_IOC_START; on failure CANnormal is set false
\* and then, on every path, true
CO_CANsetNormalMode ==
    /\ initialized
    /\ \/ started' = TRUE
       \/ UNCHANGED started
    /\ CANnormal' = TRUE
    /\ UNCHANGED <<initialized, CANerrorStatus, filterId, bufferFull,
                   syncFlag, emcy, fds, mode, attached, queue>>

\* CO_CANrxBufferInit(index): CAN_IOC_ATTACH_FILTER attaches a new filter
\* and returns its id, or fails (no free filter, or an error) and leaves
\* filter_id = -1. A filter the object had before is not detached.
CO_CANrxBufferInit(i) ==
    /\ initialized
    /\ \/ \E f \in FilterIds \ attached :
              /\ attached' = attached \cup {f}
              /\ filterId' = [filterId EXCEPT ![i] = f]
       \/ /\ filterId' = [filterId EXCEPT ![i] = NoFilter]
          /\ UNCHANGED attached
    /\ UNCHANGED <<initialized, CANnormal, CANerrorStatus, bufferFull,
                   syncFlag, emcy, fds, mode, started, queue>>

\* CO_CANtxBufferInit(index, ..., syncFlag)
CO_CANtxBufferInit(i) ==
    /\ initialized
    /\ \E s \in BOOLEAN :
          /\ bufferFull' = [bufferFull EXCEPT ![i] = FALSE]
          /\ syncFlag' = [syncFlag EXCEPT ![i] = s]
    /\ UNCHANGED <<initialized, CANnormal, CANerrorStatus, filterId, emcy,
                   ctl>>

\* CO_CANsend(buffer) under CO_LOCK_CAN_SEND. A buffer still marked full
\* is cleared and reported as CO_CAN_ERRTX_OVERFLOW without a write.
\* Otherwise write(): queued, or -EBUSY (queue full), which marks the
\* buffer full and returns CO_ERROR_NO, or another error, which reports
\* CO_EM_GENERIC_SOFTWARE_ERROR.
CO_CANsend(i) ==
    /\ initialized
    /\ IF bufferFull[i]
       THEN /\ CANerrorStatus' = "CO_CAN_ERRTX_OVERFLOW"
            /\ bufferFull' = [bufferFull EXCEPT ![i] = FALSE]
            /\ UNCHANGED <<emcy, queue>>
       ELSE /\ \/ /\ Len(queue) < TxQueue
                  /\ queue' = Append(queue, i)
                  /\ UNCHANGED <<bufferFull, emcy>>
               \/ /\ Len(queue) = TxQueue
                  /\ bufferFull' = [bufferFull EXCEPT ![i] = TRUE]
                  /\ UNCHANGED <<emcy, queue>>
               \/ /\ emcy' = emcy \cup {"CO_EM_GENERIC_SOFTWARE_ERROR"}
                  /\ UNCHANGED <<bufferFull, queue>>
            /\ UNCHANGED CANerrorStatus
    /\ UNCHANGED <<initialized, CANnormal, filterId, syncFlag, fds, mode,
                   started, attached>>

\* CO_CANclearPendingSyncPDOs: under the lock every full buffer with
\* syncFlag is cleared; if one was, CO_EM_TPDO_OUTSIDE_WINDOW is reported
CO_CANclearPendingSyncPDOs ==
    LET deleted == {i \in Tx : bufferFull[i] /\ syncFlag[i]}
    IN  /\ bufferFull' = [i \in Tx |-> bufferFull[i] /\ i \notin deleted]
        /\ emcy' = IF deleted # {} THEN emcy \cup {"CO_EM_TPDO_OUTSIDE_WINDOW"}
                   ELSE emcy
        /\ UNCHANGED <<initialized, CANnormal, CANerrorStatus, filterId,
                       syncFlag, ctl>>

(***************************************************************************)
(* The controller                                                          *)
(***************************************************************************)

\* a started controller in normal mode puts the oldest queued frame on the
\* bus
Transmit ==
    /\ started /\ mode = "normal" /\ queue # <<>>
    /\ queue' = Tail(queue)
    /\ UNCHANGED <<drv, fds, mode, started, attached>>

Next ==
    \/ CO_CANmodule_init \/ CO_CANmodule_disable
    \/ CO_CANsetConfigurationMode \/ CO_CANsetNormalMode
    \/ \E i \in Rx : CO_CANrxBufferInit(i)
    \/ \E i \in Tx : CO_CANtxBufferInit(i) \/ CO_CANsend(i)
    \/ CO_CANclearPendingSyncPDOs
    \/ Transmit

Spec == Init /\ [][Next]_vars

(***************************************************************************)
(* Properties                                                              *)
(***************************************************************************)

TypeOK ==
    /\ initialized \in BOOLEAN /\ CANnormal \in BOOLEAN
    /\ CANerrorStatus \in {0, "CO_CAN_ERRTX_OVERFLOW"}
    /\ filterId \in [Rx -> FilterIds \cup {NoFilter}]
    /\ bufferFull \in [Tx -> BOOLEAN] /\ syncFlag \in [Tx -> BOOLEAN]
    /\ emcy \subseteq {"CO_EM_GENERIC_SOFTWARE_ERROR", "CO_EM_TPDO_OUTSIDE_WINDOW"}
    /\ fds \in 0 .. MaxFds /\ mode \in {"normal", "silent"}
    /\ started \in BOOLEAN /\ attached \subseteq FilterIds
    /\ queue \in Seq(Tx) /\ Len(queue) <= TxQueue

\* The CANopen stack reads the module, not the controller: CANnormal says
\* the controller runs, a receive object's filter_id names a filter that
\* is attached and every attached filter belongs to a receive object (no
\* filter is left behind by CO_CANmodule_disable or a second
\* CO_CANrxBufferInit), and a transmit object marked bufferFull has its
\* frame still waiting in the controller (CANopenNode: "previous message
\* is still in buffer").
ModuleMirrorsDevice ==
    /\ CANnormal => started
    /\ \A i \in Rx : filterId[i] # NoFilter => filterId[i] \in attached
    /\ \A f \in attached : \E i \in Rx : filterId[i] = f
    /\ \A i \in Tx : bufferFull[i] => \E k \in 1 .. Len(queue) : queue[k] = i
=============================================================================
