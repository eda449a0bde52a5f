------------------------------ MODULE FpioaTable ------------------------------
(***************************************************************************)
(* function_config of fpioa.c: what a pad must be set to for each of the   *)
(* 256 functions of the K210.  The functions are the numbers of fpioa.h.   *)
(* Ten settings occur; the fields that no function sets are left out.  A   *)
(* part of the table is a set of rows, a function and its setting.         *)
(***************************************************************************)
EXTENDS Integers

FUNC_SPI0_D0 == 4
FUNC_SPI0_D1 == 5
FUNC_SPI0_SS3 == 15
FUNC_SPI0_SCLK == 17
FUNC_GPIOHS0 == 24
FUNC_RESV0 == 120
FUNC_MAX == 256

\* the fields of fpioa_assign_t that differ between functions
Off == [ds |-> 0, oe_en |-> 0, oe_inv |-> 0, pu |-> 0, sl |-> 0,
        ie_en |-> 0, ie_inv |-> 0, st |-> 0]
In == [Off EXCEPT !.ie_en = 1, !.st = 1]
Out == [Off EXCEPT !.ds = 15, !.oe_en = 1]
InOut == [Out EXCEPT !.ie_en = 1, !.st = 1]
\* the peripheral turns the pad round: both enables inverted
Shared == [InOut EXCEPT !.oe_inv = 1, !.ie_inv = 1]
OpenDrain == [InOut EXCEPT !.ds = 0, !.pu = 1, !.sl = 1]
OpenDrainInv == [OpenDrain EXCEPT !.oe_inv = 1]
InPullUp == [In EXCEPT !.pu = 1]
InOutPullUp == [InOut EXCEPT !.pu = 1, !.sl = 1]

\* n functions from first on have the same setting
Cells(first, n, cell) == {<<f, cell>> : f \in first..(first + n - 1)}

JTAG == Cells(0, 3, In) \cup Cells(3, 1, Out)
SPI0_D == Cells(4, 8, Shared)
SPI0_SS == Cells(12, 4, Out) \cup Cells(16, 1, In) \cup Cells(17, 1, Out)
UARTHS_CLK == Cells(18, 1, In) \cup Cells(19, 1, Out) \cup Cells(20, 2, In) \cup Cells(22, 2, Out)
GPIOHS0_7 == Cells(24, 8, InOut)
GPIOHS8_15 == Cells(32, 8, InOut)
GPIOHS16_23 == Cells(40, 8, InOut)
GPIOHS24_31 == Cells(48, 8, InOut)
GPIO == Cells(56, 8, InOut)
UART_RX_TX == Cells(64, 1, In) \cup Cells(65, 1, Out) \cup Cells(66, 1, In) \cup Cells(67, 1, Out)
  \cup Cells(68, 1, In) \cup Cells(69, 1, Out)
SPI1_D == Cells(70, 8, Shared)
SPI1_SS == Cells(78, 4, Out) \cup Cells(82, 1, In) \cup Cells(83, 1, Out)
SPI_SLAVE == Cells(84, 1, Shared) \cup Cells(85, 2, In)
I2S0_IN == Cells(87, 3, Out) \cup Cells(90, 4, In)
I2S0_OUT == Cells(94, 4, Out)
I2S1_IN == Cells(98, 3, Out) \cup Cells(101, 4, In)
I2S1_OUT == Cells(105, 4, Out)
I2S2_IN == Cells(109, 3, Out) \cup Cells(112, 4, In)
I2S2_OUT == Cells(116, 4, Out)
RESV == Cells(120, 6, Off)
I2C == Cells(126, 6, OpenDrain)
CMOS == Cells(132, 3, Out) \cup Cells(135, 3, In)
CMOS_D == Cells(138, 8, In)
SCCB == Cells(146, 2, OpenDrainInv)
UART1_IN == Cells(148, 5, In)
UART1_OUT == Cells(153, 8, Out)
UART2_IN == Cells(161, 1, Out) \cup Cells(162, 5, In)
UART2_OUT == Cells(167, 8, Out)
UART3_IN == Cells(175, 1, Out) \cup Cells(176, 5, In)
UART3_OUT == Cells(181, 8, Out)
TIMER == Cells(189, 7, Out)
TIMER_CLK == Cells(196, 8, Out)
INTERNAL0_7 == Cells(204, 8, Out)
INTERNAL8_15 == Cells(212, 1, Out) \cup Cells(213, 4, In) \cup Cells(217, 1, InPullUp)
  \cup Cells(218, 1, InOutPullUp) \cup Cells(219, 1, In)
INTERNAL16_18 == Cells(220, 2, In) \cup Cells(222, 1, Off) \cup Cells(223, 1, In)
DEBUG0_7 == Cells(224, 8, Out)
DEBUG8_15 == Cells(232, 8, Out)
DEBUG16_23 == Cells(240, 8, Out)
DEBUG24_31 == Cells(248, 8, Out)

Table ==
  JTAG \cup SPI0_D \cup SPI0_SS \cup UARTHS_CLK \cup GPIOHS0_7 \cup GPIOHS8_15
  \cup GPIOHS16_23 \cup GPIOHS24_31 \cup GPIO \cup UART_RX_TX \cup SPI1_D \cup SPI1_SS
  \cup SPI_SLAVE \cup I2S0_IN \cup I2S0_OUT \cup I2S1_IN \cup I2S1_OUT \cup I2S2_IN
  \cup I2S2_OUT \cup RESV \cup I2C \cup CMOS \cup CMOS_D \cup SCCB \cup UART1_IN
  \cup UART1_OUT \cup UART2_IN \cup UART2_OUT \cup UART3_IN \cup UART3_OUT \cup TIMER
  \cup TIMER_CLK \cup INTERNAL0_7 \cup INTERNAL8_15 \cup INTERNAL16_18 \cup DEBUG0_7
  \cup DEBUG8_15 \cup DEBUG16_23 \cup DEBUG24_31

function_config == [f \in 0..(FUNC_MAX - 1) |-> (CHOOSE row \in Table : row[1] = f)[2]]

\* Every function has one row, a pad is pulled up only when somebody can read it, and
\* the released setting neither drives nor reads.
ASSUME TableAssumption ==
  /\ \A f \in 0..(FUNC_MAX - 1) : \E row \in Table :
       /\ row[1] = f /\ \A other \in Table : other[1] = f => other = row
       /\ row[2].pu = 1 => row[2].ie_en = 1
  /\ function_config[FUNC_RESV0] = Off
=============================================================================
